---- MODULE Spec2Model ----
(***************************************************************************)
(* GitHub bounty overlay.                                                  *)
(*                                                                         *)
(*  - BountyContract (backend/src/contracts/BountyContract.ts): the three  *)
(*    public methods as predicates over the spending transaction, and a    *)
(*    ledger that accepts a spend of a locked output when the method's     *)
(*    assertions hold.                                                     *)
(*  - BountyLookupService (backend/src/api/bounty-api.ts): the handlers    *)
(*    outputAdded / outputSpent / outputDeleted on the `bounties`          *)
(*    collection.                                                          *)
(*  - BountyService (bounty-service): createBounty, payBounty,             *)
(*    refundExpiredBounty, cancelBounty, one step per awaited store or     *)
(*    contract call.                                                       *)
(*                                                                         *)
(* SpecContract explores spends of one locked output with arbitrary        *)
(* unlocking arguments and spending transactions.  Spec explores the       *)
(* index and the workflows.                                                *)
(***************************************************************************)
EXTENDS Integers, Sequences, FiniteSets, TLC

VARIABLES
    now,        \* clock (seconds): chain time and the backend's new Date()
    utxos,      \* ledger: per txid, the contract output 0 and the accepted spends of it
    bounties,   \* the `bounties` collection, documents in insertion order
    identities, \* the `github-identities` collection: username -> identityKey
    workers,    \* in-flight BountyService calls, one slot per concurrent request
    last        \* outcome of the last handler / service call that returned or threw

vars == <<now, utxos, bounties, identities, workers, last>>

(***************************************************************************)
(* Bounds                                                                  *)
(***************************************************************************)
\* Last chain time of SpecContract, last clock value of Spec.
MaxTime == 2
MaxClock == 1

Times == 0..MaxTime

\* The model follows one contract output.  Every filter and every unique key
\* names the txid, so documents of different outputs never meet.
TxIds == {1}

Null == "null"

(***************************************************************************)
(* Keys, signatures, addresses, hashes (scrypt-ts built-ins)               *)
(***************************************************************************)
\* Public keys.  A signature is modelled by the key whose private key made
\* it over the spending transaction at hand; NoSig is a missing signature or
\* one that verifies under no key (garbage, or made over another message).
Keys == {"K1", "K2", "K3", "K4"}
NoSig == "nosig"
Sigs == {NoSig} \cup Keys

checkSig(sig, pubKey) == sig /= NoSig /\ sig = pubKey

\* hash160 of a public key: collision free.
pubKey2Addr(pubKey) == <<"hash160", pubKey>>

Addrs == {pubKey2Addr(k) : k \in Keys}

\* The serialisation of one P2PKH output, as a list of outputs of length 1.
buildPublicKeyHashOutput(addr, amount) == <<[addr |-> addr, value |-> amount]>>

\* Double SHA-256 of a serialisation: collision free.
hash256(bytes) == <<"hash256", bytes>>

ZeroHash == <<"hash256", "zero">>

(***************************************************************************)
(* Spending transactions                                                   *)
(***************************************************************************)
LockedValue == 2

TxOutputs == [addr : Addrs, value : {LockedValue - 1, LockedValue}]

TxOutputLists ==
    {<<>>} \cup {<<a>> : a \in TxOutputs} \cup {<<a, b>> : a \in TxOutputs, b \in TxOutputs}

\* A transaction spending the contract output: its outputs, the position of
\* the contract input among its inputs, the value brought by its other
\* inputs, nLockTime, and whether the contract input's nSequence is final.
SpendingTxs ==
    [outputs : TxOutputLists, inputIndex : {1, 2}, otherIn : {0, 1},
     locktime : Times, seqFinal : BOOLEAN]

RECURSIVE SumValues(_)
SumValues(outs) ==
    IF outs = <<>> THEN 0 ELSE Head(outs).value + SumValues(Tail(outs))

\* this.ctx.hashOutputs under the method's sighash type: the hash of all
\* outputs (ALL), or of the one output at the input's own index (SINGLE).
hashOutputs(sigHashType, tx) ==
    IF sigHashType = "ALL"
    THEN hash256(tx.outputs)
    ELSE IF tx.inputIndex <= Len(tx.outputs)
         THEN hash256(<<tx.outputs[tx.inputIndex]>>)
         ELSE ZeroHash

\* this.timeLock(locktime): nSequence not final and nLockTime >= locktime.
timeLock(tx, locktime) == ~tx.seqFinal /\ tx.locktime >= locktime

(***************************************************************************)
(* BountyContract                                                          *)
(***************************************************************************)
Methods == {"paySolver", "refundExpired", "cancelBounty"}

\* @method(SigHash.ANYONECANPAY_SINGLE) on paySolver, @method() on the others.
SigHashOf(m) == IF m = "paySolver" THEN "ANYONECANPAY_SINGLE" ELSE "ALL"

paySolverAuth_NoCertifier(this, solverSig, solverPubKey, ownerSig, certifierSig) ==
    /\ checkSig(solverSig, solverPubKey)
    /\ checkSig(ownerSig, this.repoOwner)

\* paySolver, lines 62-78: the three signature checks.
paySolverAuth(this, solverSig, solverPubKey, ownerSig, certifierSig) ==
    /\ checkSig(solverSig, solverPubKey)
    /\ checkSig(ownerSig, this.repoOwner)
    /\ checkSig(certifierSig, this.certifierPubKey)

\* paySolver, lines 80-84: the payout commitment.
paySolverPayout(value, tx, solverPubKey) ==
    LET amount == value
        solverAddr == pubKey2Addr(solverPubKey)
        out == buildPublicKeyHashOutput(solverAddr, amount)
    IN  hash256(out) = hashOutputs(SigHashOf("paySolver"), tx)

paySolver(this, value, tx, solverSig, solverPubKey, ownerSig, certifierSig) ==
    /\ paySolverAuth(this, solverSig, solverPubKey, ownerSig, certifierSig)
    /\ paySolverPayout(value, tx, solverPubKey)

\* refundExpired, lines 90-98: the funder's key and signature.
refundExpiredAuth(this, funderSig, funderPubKey) ==
    /\ pubKey2Addr(funderPubKey) = this.funderAddr
    /\ checkSig(funderSig, funderPubKey)

\* Lines 103-106 and 132-135: the refund commitment.
refundPayout(this, value, m, tx) ==
    LET amount == value
        out == buildPublicKeyHashOutput(this.funderAddr, amount)
    IN  hash256(out) = hashOutputs(SigHashOf(m), tx)

refundExpired_NoDeadline(this, value, tx, funderSig, funderPubKey) ==
    /\ refundExpiredAuth(this, funderSig, funderPubKey)
    /\ refundPayout(this, value, "refundExpired", tx)

refundExpired(this, value, tx, funderSig, funderPubKey) ==
    /\ refundExpiredAuth(this, funderSig, funderPubKey)
    /\ timeLock(tx, this.deadline)
    /\ refundPayout(this, value, "refundExpired", tx)

cancelBountyAuth_NoOwner(this, funderSig, funderPubKey, ownerSig) ==
    /\ pubKey2Addr(funderPubKey) = this.funderAddr
    /\ checkSig(funderSig, funderPubKey)

\* cancelBounty, lines 116-130: funder's key and signature, owner's signature.
cancelBountyAuth(this, funderSig, funderPubKey, ownerSig) ==
    /\ pubKey2Addr(funderPubKey) = this.funderAddr
    /\ checkSig(funderSig, funderPubKey)
    /\ checkSig(ownerSig, this.repoOwner)

cancelBounty(this, value, tx, funderSig, funderPubKey, ownerSig) ==
    /\ cancelBountyAuth(this, funderSig, funderPubKey, ownerSig)
    /\ refundPayout(this, value, "cancelBounty", tx)

\* Unlocking arguments of a call: sig and pubKey are the first two
\* parameters (solverSig/solverPubKey or funderSig/funderPubKey); a
\* parameter the method does not have is NoSig.
UnlockArgs ==
    [sig : Sigs, pubKey : Keys, ownerSig : Sigs, certifierSig : Sigs]

ArgsOf(m) ==
    CASE m = "paySolver"     -> UnlockArgs
      [] m = "refundExpired" -> {a \in UnlockArgs : a.ownerSig = NoSig /\ a.certifierSig = NoSig}
      [] m = "cancelBounty"  -> {a \in UnlockArgs : a.certifierSig = NoSig}

\* The locking script run on a call of method m.
Unlocks(this, value, m, a, tx) ==
    CASE m = "paySolver" ->
            paySolver(this, value, tx, a.sig, a.pubKey, a.ownerSig, a.certifierSig)
      [] m = "refundExpired" ->
            refundExpired(this, value, tx, a.sig, a.pubKey)
      [] m = "cancelBounty" ->
            cancelBounty(this, value, tx, a.sig, a.pubKey, a.ownerSig)

\* The checks of method m that read only the unlocking arguments.
Authorises(this, m, a) ==
    CASE m = "paySolver" ->
            paySolverAuth(this, a.sig, a.pubKey, a.ownerSig, a.certifierSig)
      [] m = "refundExpired" ->
            refundExpiredAuth(this, a.sig, a.pubKey)
      [] m = "cancelBounty" ->
            cancelBountyAuth(this, a.sig, a.pubKey, a.ownerSig)

(***************************************************************************)
(* Ledger                                                                  *)
(***************************************************************************)
\* nLockTime rule: a transaction whose input sequence is not final is valid
\* only once chain time has reached its nLockTime.
IsFinalTx(tx, t) == tx.seqFinal \/ tx.locktime <= t

\* Outputs cannot carry more than the inputs bring.
ValueOk(value, tx) == SumValues(tx.outputs) <= value + tx.otherIn

Unspent_Respendable(u) == u.deployed

\* An output can be consumed while no accepted transaction has consumed it.
Unspent(u) == u.deployed /\ u.spends = {}

LedgerAccepts(u, m, a, tx, t) ==
    /\ Unspent(u)
    /\ IsFinalTx(tx, t)
    /\ ValueOk(u.value, tx)
    /\ Unlocks(u.this, u.value, m, a, tx)

NoOutput == [deployed |-> FALSE, this |-> Null, value |-> 0, spends |-> {}]

SpendRecord(m, a, tx, t) == [method |-> m, args |-> a, tx |-> tx, time |-> t]

\* The ledger takes the spending transaction: the output is consumed.
Consume(txid, m, a, tx) ==
    utxos' = [utxos EXCEPT ![txid].spends = @ \cup {SpendRecord(m, a, tx, now)}]

(***************************************************************************)
(* SpecContract: one locked output, any party may submit any spend         *)
(***************************************************************************)
\* Constructor parameters, up to renaming of keys: the funder's key is K1,
\* repoOwner and certifierPubKey coincide with earlier keys or are fresh.
ContractParams ==
    {[funderAddr |-> pubKey2Addr("K1"), issueId |-> 42, repoOwner |-> o,
      certifierPubKey |-> c, deadline |-> d] :
        o \in {"K1", "K2"}, c \in {"K1", "K2", "K3"}, d \in 1..MaxTime}

(***************************************************************************)
(* The store: `bounties` and `github-identities`                           *)
(***************************************************************************)
Topics == {"tm_bounty", "tm_other"}
Usernames == {"acme", "dev"}
IssueIds == {"acme/widget#42"}
PullRequests == {"pr7"}
Statuses == {"active", "completed", "expired", "canceled"}

\* No document: findOne's null.
NoKey == Null

\* A numeric field the document does not have.
Absent == -1

\* issueId.replace(/\D/g, ''): the digits of the issue id, as a number.
NumericPart(issueId) == IF issueId = "acme/widget#42" THEN 42 ELSE 0

\* The document outputAdded inserts: the fields it does not write are absent.
BareDoc(txid, outputIndex, script, topic, t) ==
    [txid |-> txid, outputIndex |-> outputIndex, script |-> script, topic |-> topic,
     status |-> "active", createdAt |-> t,
     issueId |-> Null, repoOwner |-> Null, funderIdentityKey |-> Null,
     amount |-> Absent, deadline |-> Absent,
     solverIdentityKey |-> Null, solutionPullRequestId |-> Null, completedAt |-> Absent]

\* A query filter on txid and outputIndex, and on topic unless it is Null.
Filter(txid, outputIndex, topic) ==
    [txid |-> txid, outputIndex |-> outputIndex, topic |-> topic]

MatchesFilter(doc, f) ==
    /\ doc.txid = f.txid
    /\ doc.outputIndex = f.outputIndex
    /\ f.topic = Null \/ doc.topic = f.topic

\* Position of the first matching document in natural order, 0 when none.
FindIndex(coll, f) ==
    LET m == {i \in DOMAIN coll : MatchesFilter(coll[i], f)}
    IN  IF m = {} THEN 0 ELSE CHOOSE i \in m : \A j \in m : i <= j

\* The unique index { txid: 1, outputIndex: 1, topic: 1 }.
UniqueKey(doc) == <<doc.txid, doc.outputIndex, doc.topic>>

\* The index on (txid, outputIndex, topic) does not refuse duplicates.
DuplicateKey_NotUnique(coll, doc) == FALSE

DuplicateKey(coll, doc) == \E i \in DOMAIN coll : UniqueKey(coll[i]) = UniqueKey(doc)

\* insertOne on a collection whose index was created without unique: true.
InsertOne_Unchecked(coll, doc) == [ok |-> TRUE, coll |-> Append(coll, doc)]

\* insertOne: a duplicate key error leaves the collection as it is.
InsertOne(coll, doc) ==
    IF DuplicateKey(coll, doc)
    THEN [ok |-> FALSE, coll |-> coll]
    ELSE [ok |-> TRUE, coll |-> Append(coll, doc)]

\* updateOne(filter, { $set: fields }, { upsert: true }): without a match a
\* document of the filter's and the update's fields is inserted.
UpdateOne_Upsert(coll, f, fields) ==
    LET i == FindIndex(coll, f)
        base == BareDoc(f.txid, f.outputIndex, [upserted |-> TRUE], f.topic, 0)
    IN  IF i = 0
        THEN Append(coll, [k \in DOMAIN base |->
                              IF k \in DOMAIN fields THEN fields[k] ELSE base[k]])
        ELSE [coll EXCEPT ![i] =
                 [k \in DOMAIN coll[i] |->
                     IF k \in DOMAIN fields THEN fields[k] ELSE coll[i][k]]]

\* updateOne(filter, { $set: fields }): the first match, if any.
UpdateOne(coll, f, fields) ==
    LET i == FindIndex(coll, f)
    IN  IF i = 0 THEN coll
        ELSE [coll EXCEPT ![i] =
                 [k \in DOMAIN coll[i] |->
                     IF k \in DOMAIN fields THEN fields[k] ELSE coll[i][k]]]

\* deleteOne(filter): the first match, if any.
DeleteOne(coll, f) ==
    LET i == FindIndex(coll, f)
    IN  IF i = 0 THEN coll
        ELSE [j \in 1..(Len(coll) - 1) |-> IF j < i THEN coll[j] ELSE coll[j + 1]]

\* getGitHubIdentityByUsername: the identity key, NoKey for null.  A
\* username that is absent from the document (undefined) matches nothing.
GetGitHubIdentityByUsername(username) ==
    IF username \in Usernames THEN identities[username] ELSE NoKey

(***************************************************************************)
(* Outcomes and in-flight calls                                            *)
(***************************************************************************)
\* What the last handler or service call did: returned ("ok") or threw, and
\* whether it wrote to console.error.  pre is the status of the document
\* the call matched before it acted ("none" when it matched none).
Outcome(op, txid, topic, result, logged, pre) ==
    [op |-> op, result |-> result, logged |-> logged, pre |-> pre, fault |-> FALSE]

\* The outcome of a handler whose store call was rejected by a store fault:
\* the catch block logs the error and the handler resolves.
FaultOutcome(op, pre) ==
    [op |-> op, result |-> "ok", logged |-> TRUE, pre |-> pre, fault |-> TRUE]

NoCall == Outcome("none", 0, Null, Null, FALSE, "none")

IdleWorker ==
    [op |-> "idle", pc |-> "idle", txid |-> 0, deadline |-> Absent, repoOwner |-> Null,
     issueId |-> Null, funderKey |-> Null, ownerKey |-> Null, solverKey |-> Null,
     pr |-> Null]

Workers == {1}

InitContract ==
    /\ now = 0
    /\ \E p \in ContractParams :
          utxos = [t \in TxIds |->
                      IF t = 1
                      THEN [deployed |-> TRUE, this |-> p, value |-> LockedValue,
                            spends |-> {}]
                      ELSE NoOutput]
    /\ bounties = <<>>
    /\ identities = [u \in Usernames |-> NoKey]
    /\ workers = [w \in Workers |-> IdleWorker]
    /\ last = NoCall

Advance(max) ==
    /\ now < max
    /\ now' = now + 1
    /\ UNCHANGED <<utxos, bounties, identities, workers, last>>

Tick == Advance(MaxTime)

\* A party broadcasts a transaction calling method m on output txid.  A
\* transaction the ledger refuses changes nothing.
Spend(m) ==
    /\ \E txid \in TxIds :
          /\ Unspent(utxos[txid])
          /\ \E a \in ArgsOf(m) :
                /\ Authorises(utxos[txid].this, m, a)
                /\ \E tx \in SpendingTxs :
                      /\ LedgerAccepts(utxos[txid], m, a, tx, now)
                      /\ Consume(txid, m, a, tx)
    /\ UNCHANGED <<now, bounties, identities, workers, last>>

SpendPaySolver == Spend("paySolver")
SpendRefundExpired == Spend("refundExpired")
SpendCancelBounty == Spend("cancelBounty")

NextContract ==
    \/ Tick
    \/ SpendPaySolver
    \/ SpendRefundExpired
    \/ SpendCancelBounty

SpecContract == InitContract /\ [][NextContract]_vars

(***************************************************************************)
(* BountyLookupService: the ledger observations                            *)
(***************************************************************************)
\* The overlay reports outputs of the ledger: an output once it exists, a
\* spend once a transaction consumed it, a deletion when it is retracted.
RecordStatus(coll, f) ==
    IF FindIndex(coll, f) = 0 THEN "none" ELSE coll[FindIndex(coll, f)].status

\* replaceOne(filter, doc, { upsert: true }) in place of insertOne.
OutputAdded_Upsert(txid, outputIndex, topic) ==
    /\ utxos[txid].deployed
    /\ LET f == Filter(txid, outputIndex, topic)
           i == FindIndex(bounties, f)
           doc == BareDoc(txid, outputIndex, utxos[txid].this, topic, now)
       IN  /\ bounties' = IF i = 0 THEN Append(bounties, doc)
                          ELSE [bounties EXCEPT ![i] = doc]
           /\ last' = Outcome("outputAdded", txid, topic, "ok", i /= 0,
                              RecordStatus(bounties, f))
    /\ UNCHANGED <<now, utxos, identities, workers>>

\* outputAdded, lines 215-229.
OutputAdded(txid, outputIndex, topic) ==
    /\ utxos[txid].deployed
    /\ LET f == Filter(txid, outputIndex, topic)
           r == InsertOne(bounties,
                          BareDoc(txid, outputIndex, utxos[txid].this, topic, now))
       IN  /\ bounties' = r.coll
           \* a failed insert is caught and written to console.error
           /\ last' = Outcome("outputAdded", txid, topic, "ok", ~r.ok,
                              RecordStatus(bounties, f))
    /\ UNCHANGED <<now, utxos, identities, workers>>

\* outputSpent, lines 234-244.
OutputSpent(txid, outputIndex, topic) ==
    /\ utxos[txid].spends /= {}
    /\ LET f == Filter(txid, outputIndex, topic)
       IN  /\ bounties' = UpdateOne(bounties, f,
                                    [status |-> "completed", completedAt |-> now])
           /\ last' = Outcome("outputSpent", txid, topic, "ok", FALSE,
                              RecordStatus(bounties, f))
    /\ UNCHANGED <<now, utxos, identities, workers>>

\* deleteOne({ txid, outputIndex, topic, status: 'active' }).
OutputDeleted_ActiveOnly(txid, outputIndex, topic) ==
    /\ utxos[txid].deployed
    /\ LET f == Filter(txid, outputIndex, topic)
       IN  /\ bounties' = IF RecordStatus(bounties, f) = "active"
                          THEN DeleteOne(bounties, f) ELSE bounties
           /\ last' = Outcome("outputDeleted", txid, topic, "ok", FALSE,
                              RecordStatus(bounties, f))
    /\ UNCHANGED <<now, utxos, identities, workers>>

\* outputDeleted, lines 249-256.
OutputDeleted(txid, outputIndex, topic) ==
    /\ utxos[txid].deployed
    /\ LET f == Filter(txid, outputIndex, topic)
       IN  /\ bounties' = DeleteOne(bounties, f)
           /\ last' = Outcome("outputDeleted", txid, topic, "ok", FALSE,
                              RecordStatus(bounties, f))
    /\ UNCHANGED <<now, utxos, identities, workers>>

(***************************************************************************)
(* GitHubIdentityService                                                   *)
(***************************************************************************)
\* The identity key a user's certificate names.
CertifiedKey(username) == IF username = "acme" THEN "K2" ELSE "K4"

\* storeGitHubIdentity: upsert by username; the unique index on identityKey
\* refuses a key another username holds.
StoreGitHubIdentity(username, identityKey) ==
    /\ IF \E u \in Usernames \ {username} : identities[u] = identityKey
       THEN /\ last' = Outcome("storeGitHubIdentity", 0, Null, "throw", FALSE, "none")
            /\ UNCHANGED identities
       ELSE /\ identities' = [identities EXCEPT ![username] = identityKey]
            /\ last' = Outcome("storeGitHubIdentity", 0, Null, "ok", FALSE, "none")
    /\ UNCHANGED <<now, utxos, bounties, workers>>

(***************************************************************************)
(* BountyService                                                           *)
(***************************************************************************)
\* The wallet's identity key (the funder) and the configured certifier key.
WalletKey == "K1"
CertifierPublicKey == "K3"

\* deadlineDays * 24 * 60 * 60, in clock units.
DeadlineSeconds == 1

OutputIndex0 == 0

\* catch (error) { console.error(...); throw new Error(...) }
Throw(w, op, txid, pre) ==
    /\ workers' = [workers EXCEPT ![w] = IdleWorker]
    /\ last' = Outcome(op, txid, Null, "throw", TRUE, "none")

Return(w, op, txid, pre) ==
    /\ workers' = [workers EXCEPT ![w] = IdleWorker]
    /\ last' = Outcome(op, txid, Null, "ok", FALSE, "none")

FreshTxids == {t \in TxIds : ~utxos[t].deployed}

\* createBounty, lines 48-74: resolve the owner, build the contract, deploy.
\* The deployment is the wallet's and the network's: it may fail.
CreateBounty_Deploy(w, issueId, repoOwner) ==
    /\ workers[w].pc = "idle"
    /\ FreshTxids /= {}
    /\ LET repoOwnerIdentity == GetGitHubIdentityByUsername(repoOwner)
           deadline == now + DeadlineSeconds
           txid == CHOOSE t \in FreshTxids : \A x \in FreshTxids : t <= x
           instance == [funderAddr |-> pubKey2Addr(WalletKey),
                        issueId |-> NumericPart(issueId),
                        repoOwner |-> repoOwnerIdentity,
                        certifierPubKey |-> CertifierPublicKey,
                        deadline |-> deadline]
       IN  IF repoOwnerIdentity = NoKey
           THEN Throw(w, "createBounty", 0, "none") /\ UNCHANGED utxos
           ELSE \/ Throw(w, "createBounty", 0, "none") /\ UNCHANGED utxos
                \/ /\ utxos' = [utxos EXCEPT ![txid] =
                                    [deployed |-> TRUE, this |-> instance,
                                     value |-> LockedValue, spends |-> {}]]
                   /\ workers' = [workers EXCEPT ![w] =
                                    [IdleWorker EXCEPT !.op = "createBounty",
                                        !.pc = "insert", !.txid = txid,
                                        !.issueId = issueId, !.repoOwner = repoOwner,
                                        !.funderKey = WalletKey,
                                        !.deadline = deadline]]
                   /\ UNCHANGED last
    /\ UNCHANGED <<now, bounties, identities>>

\* createBounty, lines 76-96: insert the bounty document.
CreateBounty_Insert(w) ==
    /\ workers[w].op = "createBounty" /\ workers[w].pc = "insert"
    /\ LET me == workers[w]
           bountyDoc ==
               [BareDoc(me.txid, OutputIndex0, utxos[me.txid].this, "tm_bounty", now)
                   EXCEPT !.issueId = me.issueId, !.repoOwner = me.repoOwner,
                          !.funderIdentityKey = me.funderKey,
                          !.amount = utxos[me.txid].value,
                          !.deadline = me.deadline]
           r == InsertOne(bounties, bountyDoc)
           pre == RecordStatus(bounties, Filter(me.txid, OutputIndex0, "tm_bounty"))
       IN  /\ bounties' = r.coll
           /\ IF r.ok THEN Return(w, "createBounty", me.txid, pre)
                      ELSE Throw(w, "createBounty", me.txid, pre)
    /\ UNCHANGED <<now, utxos, identities>>

\* The transaction the contract call builds: the method's payout alone,
\* locked to the current time.
BuiltTx(u, m, pubKey) ==
    [outputs |-> <<[addr |-> IF m = "paySolver" THEN pubKey2Addr(pubKey)
                            ELSE u.this.funderAddr,
                    value |-> u.value]>>,
     inputIndex |-> 1, otherIn |-> 0, locktime |-> now, seqFinal |-> FALSE]

\* What the wallet returns when asked to sign for key: a signature of that
\* key, or one that does not verify.
WalletSigs(key) == {NoSig} \cup ({key} \cap Keys)

\* The call's failure is caught and the workflow goes on to its update.
ContractCall_FailureIgnored(w, op, m, args) ==
    LET me == workers[w]
        u == utxos[me.txid]
    IN  \/ /\ \E a \in args :
                 /\ LedgerAccepts(u, m, a, BuiltTx(u, m, a.pubKey), now)
                 /\ Consume(me.txid, m, a, BuiltTx(u, m, a.pubKey))
           /\ workers' = [workers EXCEPT ![w].pc = "write"]
           /\ UNCHANGED last
        \/ /\ workers' = [workers EXCEPT ![w].pc = "write"]
           /\ UNCHANGED <<last, utxos>>

\* instance.methods.<m>(...): the call is accepted by the ledger, or throws.
ContractCall(w, op, m, args) ==
    LET me == workers[w]
        u == utxos[me.txid]
    IN  \/ /\ \E a \in args :
                 /\ LedgerAccepts(u, m, a, BuiltTx(u, m, a.pubKey), now)
                 /\ Consume(me.txid, m, a, BuiltTx(u, m, a.pubKey))
           /\ workers' = [workers EXCEPT ![w].pc = "write"]
           /\ UNCHANGED last
        \/ Throw(w, op, me.txid, "active") /\ UNCHANGED utxos

\* The solver's identity is not checked.
PayBounty_Read_NoSolverCheck(w, txid, solverGithubUsername, solutionPullRequestId) ==
    /\ workers[w].pc = "idle"
    /\ LET f == Filter(txid, OutputIndex0, Null)
           i == FindIndex(bounties, f)
           pre == RecordStatus(bounties, f)
           solverIdentity == GetGitHubIdentityByUsername(solverGithubUsername)
       IN  IF i = 0 \/ pre /= "active"
           THEN Throw(w, "payBounty", txid, pre)
           ELSE LET bounty == bounties[i]
                    repoOwnerIdentity == GetGitHubIdentityByUsername(bounty.repoOwner)
                IN  IF \/ repoOwnerIdentity = NoKey
                       \/ bounty.issueId = Null
                    THEN Throw(w, "payBounty", txid, pre)
                    ELSE /\ workers' = [workers EXCEPT ![w] =
                                           [IdleWorker EXCEPT !.op = "payBounty",
                                               !.pc = "call", !.txid = txid,
                                               !.solverKey = solverIdentity,
                                               !.ownerKey = repoOwnerIdentity,
                                               !.pr = solutionPullRequestId]]
                         /\ UNCHANGED last
    /\ UNCHANGED <<now, utxos, bounties, identities>>

\* payBounty, lines 112-155.
PayBounty_Read(w, txid, solverGithubUsername, solutionPullRequestId) ==
    /\ workers[w].pc = "idle"
    /\ LET f == Filter(txid, OutputIndex0, Null)
           i == FindIndex(bounties, f)
           pre == RecordStatus(bounties, f)
           solverIdentity == GetGitHubIdentityByUsername(solverGithubUsername)
       IN  IF i = 0 \/ pre /= "active"
           THEN Throw(w, "payBounty", txid, pre)
           ELSE LET bounty == bounties[i]
                    repoOwnerIdentity == GetGitHubIdentityByUsername(bounty.repoOwner)
                IN  IF \/ solverIdentity = NoKey
                       \/ repoOwnerIdentity = NoKey
                       \/ bounty.issueId = Null
                    THEN Throw(w, "payBounty", txid, pre)
                    ELSE /\ workers' = [workers EXCEPT ![w] =
                                           [IdleWorker EXCEPT !.op = "payBounty",
                                               !.pc = "call", !.txid = txid,
                                               !.solverKey = solverIdentity,
                                               !.ownerKey = repoOwnerIdentity,
                                               !.pr = solutionPullRequestId]]
                         /\ UNCHANGED last
    /\ UNCHANGED <<now, utxos, bounties, identities>>

\* payBounty, lines 157-163.
PayBounty_Call(w) ==
    /\ workers[w].op = "payBounty" /\ workers[w].pc = "call"
    /\ ContractCall(w, "payBounty", "paySolver",
                    [sig : WalletSigs(workers[w].solverKey),
                     pubKey : {workers[w].solverKey},
                     ownerSig : WalletSigs(workers[w].ownerKey),
                     certifierSig : WalletSigs(CertifierPublicKey)])
    /\ UNCHANGED <<now, bounties, identities>>

\* The update sets the status alone.
PayBounty_Write_StatusOnly(w) ==
    /\ workers[w].op = "payBounty" /\ workers[w].pc = "write"
    /\ LET me == workers[w]
           f == Filter(me.txid, OutputIndex0, Null)
       IN  /\ bounties' = UpdateOne(bounties, f, [status |-> "completed"])
           /\ Return(w, "payBounty", me.txid, RecordStatus(bounties, f))
    /\ UNCHANGED <<now, utxos, identities>>

\* payBounty, lines 165-178.
PayBounty_Write(w) ==
    /\ workers[w].op = "payBounty" /\ workers[w].pc = "write"
    /\ LET me == workers[w]
           f == Filter(me.txid, OutputIndex0, Null)
       IN  /\ bounties' = UpdateOne(bounties, f,
                                    [status |-> "completed",
                                     solverIdentityKey |-> me.solverKey,
                                     solutionPullRequestId |-> me.pr,
                                     completedAt |-> now])
           /\ Return(w, "payBounty", me.txid, RecordStatus(bounties, f))
    /\ UNCHANGED <<now, utxos, identities>>

\* The status is written before the contract call is made.
RefundExpiredBounty_Read_WriteFirst(w, txid) ==
    /\ workers[w].pc = "idle"
    /\ LET f == Filter(txid, OutputIndex0, Null)
           i == FindIndex(bounties, f)
           pre == RecordStatus(bounties, f)
       IN  IF i = 0 \/ pre /= "active"
           THEN Throw(w, "refundExpiredBounty", txid, pre) /\ UNCHANGED bounties
           ELSE LET bounty == bounties[i]
                IN  IF \/ (bounty.deadline /= Absent /\ now < bounty.deadline)
                       \/ bounty.issueId = Null
                    THEN Throw(w, "refundExpiredBounty", txid, pre)
                         /\ UNCHANGED bounties
                    ELSE /\ bounties' = UpdateOne(bounties, f,
                                           [status |-> "expired", completedAt |-> now])
                         /\ workers' = [workers EXCEPT ![w] =
                                           [IdleWorker EXCEPT
                                               !.op = "refundExpiredBounty",
                                               !.pc = "call", !.txid = txid,
                                               !.funderKey = bounty.funderIdentityKey]]
                         /\ UNCHANGED last
    /\ UNCHANGED <<now, utxos, identities>>

\* refundExpiredBounty, lines 230-268.  bounty.repoOwnerIdentityKey is a
\* field no code writes: what PublicKey.fromString makes of it is the
\* library's, so the constructor returns or throws.
RefundExpiredBounty_Read(w, txid) ==
    /\ workers[w].pc = "idle"
    /\ LET f == Filter(txid, OutputIndex0, Null)
           i == FindIndex(bounties, f)
           pre == RecordStatus(bounties, f)
       IN  IF i = 0 \/ pre /= "active"
           THEN Throw(w, "refundExpiredBounty", txid, pre)
           ELSE LET bounty == bounties[i]
                IN  IF \/ (bounty.deadline /= Absent /\ now < bounty.deadline)
                       \/ bounty.issueId = Null
                    THEN Throw(w, "refundExpiredBounty", txid, pre)
                    ELSE \/ Throw(w, "refundExpiredBounty", txid, pre)
                         \/ /\ workers' = [workers EXCEPT ![w] =
                                              [IdleWorker EXCEPT
                                                  !.op = "refundExpiredBounty",
                                                  !.pc = "call", !.txid = txid,
                                                  !.funderKey = bounty.funderIdentityKey]]
                            /\ UNCHANGED last
    /\ UNCHANGED <<now, utxos, bounties, identities>>

\* A rejected call is not noticed: the workflow goes on to its update.
RefundExpiredBounty_Call_WriteAnyway(w) ==
    /\ workers[w].op = "refundExpiredBounty" /\ workers[w].pc = "call"
    /\ ContractCall_FailureIgnored(w, "refundExpiredBounty", "refundExpired",
                    [sig : WalletSigs(workers[w].funderKey),
                     pubKey : {workers[w].funderKey},
                     ownerSig : {NoSig}, certifierSig : {NoSig}])
    /\ UNCHANGED <<now, bounties, identities>>

\* refundExpiredBounty, lines 269-272.
RefundExpiredBounty_Call(w) ==
    /\ workers[w].op = "refundExpiredBounty" /\ workers[w].pc = "call"
    /\ ContractCall(w, "refundExpiredBounty", "refundExpired",
                    [sig : WalletSigs(workers[w].funderKey),
                     pubKey : {workers[w].funderKey},
                     ownerSig : {NoSig}, certifierSig : {NoSig}])
    /\ UNCHANGED <<now, bounties, identities>>

\* refundExpiredBounty, lines 274-285.
RefundExpiredBounty_Write(w) ==
    /\ workers[w].op = "refundExpiredBounty" /\ workers[w].pc = "write"
    /\ LET me == workers[w]
           f == Filter(me.txid, OutputIndex0, Null)
       IN  /\ bounties' = UpdateOne(bounties, f,
                                    [status |-> "expired", completedAt |-> now])
           /\ Return(w, "refundExpiredBounty", me.txid, RecordStatus(bounties, f))
    /\ UNCHANGED <<now, utxos, identities>>

\* The record's status is not looked at.
CancelBounty_Read_NoStatusCheck(w, txid) ==
    /\ workers[w].pc = "idle"
    /\ LET f == Filter(txid, OutputIndex0, Null)
           i == FindIndex(bounties, f)
           pre == RecordStatus(bounties, f)
       IN  IF i = 0
           THEN Throw(w, "cancelBounty", txid, pre)
           ELSE LET bounty == bounties[i]
                    repoOwnerIdentity == GetGitHubIdentityByUsername(bounty.repoOwner)
                IN  IF repoOwnerIdentity = NoKey \/ bounty.issueId = Null
                    THEN Throw(w, "cancelBounty", txid, pre)
                    ELSE /\ workers' = [workers EXCEPT ![w] =
                                           [IdleWorker EXCEPT !.op = "cancelBounty",
                                               !.pc = "call", !.txid = txid,
                                               !.funderKey = bounty.funderIdentityKey,
                                               !.ownerKey = repoOwnerIdentity]]
                         /\ UNCHANGED last
    /\ UNCHANGED <<now, utxos, bounties, identities>>

\* cancelBounty, lines 296-331.
CancelBounty_Read(w, txid) ==
    /\ workers[w].pc = "idle"
    /\ LET f == Filter(txid, OutputIndex0, Null)
           i == FindIndex(bounties, f)
           pre == RecordStatus(bounties, f)
       IN  IF i = 0 \/ pre /= "active"
           THEN Throw(w, "cancelBounty", txid, pre)
           ELSE LET bounty == bounties[i]
                    repoOwnerIdentity == GetGitHubIdentityByUsername(bounty.repoOwner)
                IN  IF repoOwnerIdentity = NoKey \/ bounty.issueId = Null
                    THEN Throw(w, "cancelBounty", txid, pre)
                    ELSE /\ workers' = [workers EXCEPT ![w] =
                                           [IdleWorker EXCEPT !.op = "cancelBounty",
                                               !.pc = "call", !.txid = txid,
                                               !.funderKey = bounty.funderIdentityKey,
                                               !.ownerKey = repoOwnerIdentity]]
                         /\ UNCHANGED last
    /\ UNCHANGED <<now, utxos, bounties, identities>>

\* cancelBounty, lines 333-338.
CancelBounty_Call(w) ==
    /\ workers[w].op = "cancelBounty" /\ workers[w].pc = "call"
    /\ ContractCall(w, "cancelBounty", "cancelBounty",
                    [sig : WalletSigs(workers[w].funderKey),
                     pubKey : {workers[w].funderKey},
                     ownerSig : WalletSigs(workers[w].ownerKey),
                     certifierSig : {NoSig}])
    /\ UNCHANGED <<now, bounties, identities>>

\* cancelBounty, lines 340-351.
CancelBounty_Write(w) ==
    /\ workers[w].op = "cancelBounty" /\ workers[w].pc = "write"
    /\ LET me == workers[w]
           f == Filter(me.txid, OutputIndex0, Null)
       IN  /\ bounties' = UpdateOne(bounties, f,
                                    [status |-> "canceled", completedAt |-> now])
           /\ Return(w, "cancelBounty", me.txid, RecordStatus(bounties, f))
    /\ UNCHANGED <<now, utxos, identities>>

(***************************************************************************)
(* Spec: the index, the workflows and the ledger behind them               *)
(***************************************************************************)
ClockTick == Advance(MaxClock)

Init ==
    /\ now = 0
    /\ utxos = [t \in TxIds |-> NoOutput]
    /\ bounties = <<>>
    /\ identities = [u \in Usernames |-> NoKey]
    /\ workers = [w \in Workers |-> IdleWorker]
    /\ last = NoCall

Next ==
    \/ ClockTick
    \/ \E t \in TxIds, topic \in Topics : OutputAdded(t, OutputIndex0, topic)
    \/ \E t \in TxIds, topic \in Topics : OutputSpent(t, OutputIndex0, topic)
    \/ \E t \in TxIds, topic \in Topics : OutputDeleted(t, OutputIndex0, topic)
    \/ \E u \in Usernames : StoreGitHubIdentity(u, CertifiedKey(u))
    \/ \E w \in Workers, i \in IssueIds, o \in Usernames : CreateBounty_Deploy(w, i, o)
    \/ \E w \in Workers : CreateBounty_Insert(w)
    \/ \E w \in Workers, t \in TxIds, u \in Usernames, pr \in PullRequests :
          PayBounty_Read(w, t, u, pr)
    \/ \E w \in Workers : PayBounty_Call(w)
    \/ \E w \in Workers : PayBounty_Write(w)
    \/ \E w \in Workers, t \in TxIds : RefundExpiredBounty_Read(w, t)
    \/ \E w \in Workers : RefundExpiredBounty_Call(w)
    \/ \E w \in Workers : RefundExpiredBounty_Write(w)
    \/ \E w \in Workers, t \in TxIds : CancelBounty_Read(w, t)
    \/ \E w \in Workers : CancelBounty_Call(w)
    \/ \E w \in Workers : CancelBounty_Write(w)

Spec == Init /\ [][Next]_vars

(***************************************************************************)
(* SpecFaults: Spec with a backing store that may fail                     *)
(***************************************************************************)
\* A handler whose insertOne / updateOne / deleteOne rejects because the
\* store is unavailable: nothing is written, the try/catch of the handler
\* (bounty-api.ts:216-228, 235-243, 250-255) catches the error.
HandlerFault(op, txid, outputIndex, topic) ==
    /\ last' = FaultOutcome(op, RecordStatus(bounties, Filter(txid, outputIndex, topic)))
    /\ UNCHANGED <<now, utxos, bounties, identities, workers>>

OutputAddedFault(txid, outputIndex, topic) ==
    /\ utxos[txid].deployed
    /\ HandlerFault("outputAdded", txid, outputIndex, topic)

OutputSpentFault(txid, outputIndex, topic) ==
    /\ utxos[txid].spends /= {}
    /\ HandlerFault("outputSpent", txid, outputIndex, topic)

OutputDeletedFault(txid, outputIndex, topic) ==
    /\ utxos[txid].deployed
    /\ HandlerFault("outputDeleted", txid, outputIndex, topic)

NextFaults ==
    \/ Next
    \/ \E t \in TxIds, topic \in Topics : OutputAddedFault(t, OutputIndex0, topic)
    \/ \E t \in TxIds, topic \in Topics : OutputSpentFault(t, OutputIndex0, topic)
    \/ \E t \in TxIds, topic \in Topics : OutputDeletedFault(t, OutputIndex0, topic)

SpecFaults == Init /\ [][NextFaults]_vars

(***************************************************************************)
(* BountyLookupService.lookup, and SpecLookup: lookups on stored indexes   *)
(***************************************************************************)
\* if (x): a filter is applied when its value is truthy.
Truthy(v) == v /= Null /\ v /= ""

\* The value of a field of a stored document; Null when the document has no
\* such field (the model writes the optional fields of Bounty as Null).
DocField(doc, k) == IF k \in DOMAIN doc THEN doc[k] ELSE Null

\* The status filter is left out of the filter document.
MongoQuery_NoStatus(query, identityKey) ==
    LET fields == {"topic"}
                  \cup {k \in {"issueId", "repoOwner"} : Truthy(query[k])}
                  \cup (IF identityKey = NoKey THEN {} ELSE {"identityKey"})
    IN  [k \in fields |->
            CASE k = "topic"       -> "tm_bounty"
              [] k = "identityKey" -> identityKey
              [] OTHER             -> query[k]]

\* lookup, lines 265-278: the filter document handed to bounties.find.
MongoQuery(query, identityKey) ==
    LET fields == {"topic"}
                  \cup {k \in {"issueId", "repoOwner", "status"} : Truthy(query[k])}
                  \cup (IF identityKey = NoKey THEN {} ELSE {"identityKey"})
    IN  [k \in fields |->
            CASE k = "topic"       -> "tm_bounty"
              [] k = "identityKey" -> identityKey
              [] OTHER             -> query[k]]

\* A document matches when each field of the filter equals its own.
MatchesQuery(doc, mongoQuery) ==
    \A k \in DOMAIN mongoQuery : DocField(doc, k) = mongoQuery[k]

\* bounties.find(mongoQuery).toArray(): the matches in natural order.
Find(coll, mongoQuery) == SelectSeq(coll, LAMBDA d : MatchesQuery(d, mongoQuery))

\* results.map(result => ({ txid, outputIndex })).
Refs(results) ==
    [i \in DOMAIN results |->
        [txid |-> results[i].txid, outputIndex |-> results[i].outputIndex]]

\* An unknown user does not end the lookup: the search runs without an
\* identity filter.
lookup_UnknownUserIgnored(query) ==
    [type |-> "formula",
     outputs |-> Refs(Find(bounties,
                 MongoQuery(query,
                     IF Truthy(query.githubUsername)
                     THEN GetGitHubIdentityByUsername(query.githubUsername)
                     ELSE NoKey)))]

\* lookup, lines 261-292.
lookup(query) ==
    IF Truthy(query.githubUsername)
    THEN LET userIdentity == GetGitHubIdentityByUsername(query.githubUsername)
         IN  IF userIdentity /= NoKey
             THEN [type |-> "formula",
                   outputs |-> Refs(Find(bounties, MongoQuery(query, userIdentity)))]
             ELSE [type |-> "output-list", outputs |-> <<>>]
    ELSE [type |-> "formula",
          outputs |-> Refs(Find(bounties, MongoQuery(query, NoKey)))]

\* Number of documents of a stored index.
MaxDocs == 2

LookupIssueIds == IssueIds \cup {"dev/tool#7"}

\* The owner createBounty is given for an issue: the owner of its repository.
OwnerOfIssue(issueId) == IF issueId = "acme/widget#42" THEN "acme" ELSE "dev"

\* The locking script stored with a document.
StoredScript ==
    [funderAddr |-> pubKey2Addr(WalletKey), issueId |-> 42, repoOwner |-> "K2",
     certifierPubKey |-> CertifierPublicKey, deadline |-> DeadlineSeconds]

\* The documents the code leaves for output txid: outputAdded's (either
\* topic), createBounty's while active, and createBounty's after
\* refundExpiredBounty, cancelBounty, outputSpent or payBounty (for either
\* registered solver) wrote to it.
StoredDocs(txid) ==
    LET bare(topic) == BareDoc(txid, OutputIndex0, StoredScript, topic, 0)
        created(issueId) ==
            [bare("tm_bounty") EXCEPT !.issueId = issueId,
                                      !.repoOwner = OwnerOfIssue(issueId),
                                      !.funderIdentityKey = WalletKey,
                                      !.amount = LockedValue,
                                      !.deadline = DeadlineSeconds]
    IN  {bare(topic) : topic \in Topics}
        \cup {created(i) : i \in LookupIssueIds}
        \cup {[created(i) EXCEPT !.status = st, !.completedAt = 0] :
                 i \in LookupIssueIds, st \in {"completed", "expired"}}
        \cup {[created(i) EXCEPT !.status = "completed", !.completedAt = 0,
                                 !.solverIdentityKey = CertifiedKey(u),
                                 !.solutionPullRequestId = "pr7"] :
                 i \in LookupIssueIds, u \in Usernames}

\* Stored indexes: the i-th document belongs to output i.
StoredIndexes ==
    UNION {{c \in [1..n -> UNION {StoredDocs(t) : t \in 1..n}] :
              \A i \in 1..n : c[i].txid = i} : n \in 0..MaxDocs}

\* question.query: each filter absent (Null) or supplied; "ghost" is a
\* username nobody registered.
Queries ==
    [issueId : {Null, "acme/widget#42"}, repoOwner : {Null, "acme"},
     status : {Null, "completed"}, githubUsername : {Null, "acme", "ghost"}]

InitLookup ==
    /\ now = 0
    /\ utxos = [t \in TxIds |-> NoOutput]
    /\ bounties \in StoredIndexes
    /\ identities \in [Usernames -> {NoKey} \cup {CertifiedKey(u) : u \in Usernames}]
    /\ \A u \in Usernames : identities[u] \in {NoKey, CertifiedKey(u)}
    /\ workers = [w \in Workers |-> IdleWorker]
    /\ last = NoCall

Lookup(query) ==
    /\ last' = [op |-> "lookup", result |-> "ok", logged |-> FALSE, pre |-> "none",
                fault |-> FALSE, query |-> query, answer |-> lookup(query)]
    /\ UNCHANGED <<now, utxos, bounties, identities, workers>>

NextLookup == \E query \in Queries : Lookup(query)

SpecLookup == InitLookup /\ [][NextLookup]_vars

(***************************************************************************)
(* Claims on the contract (checked under SpecContract)                     *)
(***************************************************************************)
\* Every accepted spend, with the output it consumed.
SpendsOf(txid) == utxos[txid].spends

\* C1: a locked output is consumed by at most one accepted transaction, and
\* once it is consumed no attempt by any of the three methods is accepted:
\* the set of accepted spends of the output never changes again.
C1_SingleSpend ==
    /\ [](\A t \in TxIds : Cardinality(SpendsOf(t)) <= 1)
    /\ [][\A t \in TxIds : SpendsOf(t) /= {} => utxos'[t].spends = SpendsOf(t)]_vars

\* The output was consumed by cancelBounty and the clock has reached the
\* deadline, when a refund would otherwise have been acceptable.
C1_Witness ==
    \E t \in TxIds : \E s \in SpendsOf(t) :
        s.method = "cancelBounty" /\ now >= utxos[t].this.deadline /\ now > s.time

\* C2: every accepted refundExpired was accepted at a chain time at or after
\* the deadline, with a public key hashing to funderAddr and a signature
\* verifying under that key; none is accepted before the deadline.
C2_RefundOnlyAfterDeadlineByFunder ==
    \A t \in TxIds : \A s \in SpendsOf(t) :
        s.method = "refundExpired" =>
            /\ s.time >= utxos[t].this.deadline
            /\ pubKey2Addr(s.args.pubKey) = utxos[t].this.funderAddr
            /\ checkSig(s.args.sig, s.args.pubKey)

C2_Witness ==
    \E t \in TxIds : \E s \in SpendsOf(t) :
        s.method = "refundExpired" /\ s.time >= utxos[t].this.deadline

FunderKeyOf(this) == CHOOSE k \in Keys : pubKey2Addr(k) = this.funderAddr

GoodCancelArgs(this) ==
    [sig |-> FunderKeyOf(this), pubKey |-> FunderKeyOf(this),
     ownerSig |-> this.repoOwner, certifierSig |-> NoSig]

GoodRefundTx(u) ==
    [outputs |-> <<[addr |-> u.this.funderAddr, value |-> u.value]>>,
     inputIndex |-> 1, otherIn |-> 0, locktime |-> 0, seqFinal |-> TRUE]

\* C4: every accepted cancelBounty carried a funder key hashing to
\* funderAddr, a signature verifying under it and a signature verifying
\* under repoOwner; and there is no deadline condition: at every time, before
\* and after the deadline, the well-formed cancellation of an unspent output
\* is acceptable.
C4_CancelNeedsFunderAndOwner ==
    \A t \in TxIds :
        /\ \A s \in SpendsOf(t) :
              s.method = "cancelBounty" =>
                  /\ pubKey2Addr(s.args.pubKey) = utxos[t].this.funderAddr
                  /\ checkSig(s.args.sig, s.args.pubKey)
                  /\ checkSig(s.args.ownerSig, utxos[t].this.repoOwner)
        /\ Unspent(utxos[t]) =>
              LedgerAccepts(utxos[t], "cancelBounty", GoodCancelArgs(utxos[t].this),
                            GoodRefundTx(utxos[t]), now)

\* A cancellation accepted before the deadline.
C4_Witness ==
    \E t \in TxIds : \E s \in SpendsOf(t) :
        s.method = "cancelBounty" /\ s.time < utxos[t].this.deadline

\* The single payout a method requires.
RequiredPayout(u, s) ==
    [addr |-> IF s.method = "paySolver" THEN pubKey2Addr(s.args.pubKey)
              ELSE u.this.funderAddr,
     value |-> u.value]

\* C5: the output list of every accepted spend is exactly the one required
\* payout.
C5_ExactPayout ==
    \A t \in TxIds : \A s \in SpendsOf(t) :
        s.tx.outputs = <<RequiredPayout(utxos[t], s)>>

\* The keys whose signatures an accepted spend carries.
SignersOf(s) == {s.args.sig, s.args.ownerSig, s.args.certifierSig} \ {NoSig}

\* C6: no accepted spend carries the signatures of one key only, except a
\* refundExpired at or after the deadline.
C6_NoSingleKeySpend ==
    \A t \in TxIds : \A s \in SpendsOf(t) :
        Cardinality(SignersOf(s)) = 1 =>
            s.method = "refundExpired" /\ s.time >= utxos[t].this.deadline

(***************************************************************************)
(* Claims on the index (checked under Spec)                                *)
(***************************************************************************)
Terminal == {"completed", "expired", "canceled"}

Keys3 == {Filter(t, OutputIndex0, topic) : t \in TxIds, topic \in Topics}

\* A terminal status written by a workflow: 'expired' and 'canceled' are
\* written by refundExpiredBounty and cancelBounty only; 'completed' is
\* payBounty's when the solver fields are set.
SetByWorkflow(doc) ==
    \/ doc.status \in {"expired", "canceled"}
    \/ doc.status = "completed" /\ doc.solverIdentityKey /= Null

\* C7: an outputSpent for a key whose record carries a terminal status set
\* by a workflow leaves that record's status and completedAt unchanged.
C7_OutputSpentKeepsWorkflowStatus ==
    [][\A f \in Keys3 :
          LET i == FindIndex(bounties, f)
          IN  (/\ OutputSpent(f.txid, f.outputIndex, f.topic)
               /\ i /= 0
               /\ SetByWorkflow(bounties[i]))
              => /\ bounties'[i].status = bounties[i].status
                 /\ bounties'[i].completedAt = bounties[i].completedAt]_vars

\* C8: in every step, a record that stays in the index keeps its status or
\* moves from 'active' to 'completed', 'expired' or 'canceled'.
C8_StatusOnlyLeavesActive ==
    [][\A f \in Keys3 :
          LET i == FindIndex(bounties, f)
              j == FindIndex(bounties', f)
          IN  (i /= 0 /\ j /= 0 /\ bounties'[j].status /= bounties[i].status)
              => /\ bounties[i].status = "active"
                 /\ bounties'[j].status \in Terminal]_vars

\* C9: outputAdded for a key already present leaves the collection (the
\* record count and every field of every record) unchanged, and the handler
\* returns normally.
C9_OutputAddedIdempotent ==
    [][\A f \in Keys3 :
          (/\ OutputAdded(f.txid, f.outputIndex, f.topic)
           /\ FindIndex(bounties, f) /= 0)
          => /\ bounties' = bounties
             /\ last'.op = "outputAdded" /\ last'.result = "ok"]_vars

\* outputAdded was delivered again for a record a spend had already
\* completed: the insert failed and was caught.
C9_Witness ==
    /\ last.op = "outputAdded" /\ last.logged /\ last.pre = "completed"
    /\ \E i \in DOMAIN bounties : bounties[i].status = "completed"

\* C10: after outputDeleted for a key, the index holds no record for that
\* key, whatever the record's status was.
C10_OutputDeletedRemoves ==
    [][\A f \in Keys3 :
          OutputDeleted(f.txid, f.outputIndex, f.topic)
          => FindIndex(bounties', f) = 0]_vars

\* outputDeleted removed a record a workflow had marked 'expired'.
C10_Witness ==
    /\ last.op = "outputDeleted" /\ last.pre = "expired"
    /\ bounties = <<>>

\* C11: no two records of the index share (txid, outputIndex, topic).
C11_KeyUniqueness ==
    \A i \in DOMAIN bounties : \A j \in DOMAIN bounties :
        UniqueKey(bounties[i]) = UniqueKey(bounties[j]) => i = j

\* createBounty's insert met the record outputAdded had already written for
\* the same key, next to a record of the other topic.
C11_Witness ==
    /\ last.op = "createBounty" /\ last.result = "throw"
    /\ Len(bounties) = 2
    /\ \E i \in DOMAIN bounties : bounties[i].topic = "tm_bounty"

\* A record as outputSpent leaves it: 'completed' without solver fields
\* (payBounty, the only other writer of 'completed', sets them).
LeftByOutputSpent(doc) ==
    doc.status = "completed" /\ doc.solverIdentityKey = Null

\* C12: replaying an event changes nothing: an outputSpent for a key whose
\* record an earlier outputSpent completed, and an outputDeleted for a key
\* that has no record, leave the index (every record, its status and its
\* completedAt) as it is.
C12_ReplayIsSafe ==
    [][\A f \in Keys3 :
          LET i == FindIndex(bounties, f)
          IN  /\ (/\ OutputSpent(f.txid, f.outputIndex, f.topic)
                  /\ i /= 0
                  /\ LeftByOutputSpent(bounties[i]))
                 => bounties' = bounties
              /\ (OutputDeleted(f.txid, f.outputIndex, f.topic) /\ i = 0)
                 => bounties' = bounties]_vars

\* The keys of the records the index holds.
IndexedKeys(coll) == {UniqueKey(coll[i]) : i \in DOMAIN coll}

\* C13: a key enters the index only in an outputAdded step and leaves it
\* only in an outputDeleted step; a step of createBounty, payBounty,
\* refundExpiredBounty or cancelBounty neither inserts nor deletes a record.
C13_LifecycleThroughHandlers ==
    [][/\ (IndexedKeys(bounties') \ IndexedKeys(bounties) /= {}
           \/ Len(bounties') > Len(bounties))
          => \E f \in Keys3 : OutputAdded(f.txid, f.outputIndex, f.topic)
       /\ (IndexedKeys(bounties) \ IndexedKeys(bounties') /= {}
           \/ Len(bounties') < Len(bounties))
          => \E f \in Keys3 : OutputDeleted(f.txid, f.outputIndex, f.topic)]_vars

\* C14: every record whose status is not 'active' belongs to an output that
\* an accepted transaction has spent.
C14_TerminalMeansSpent ==
    \A i \in DOMAIN bounties :
        bounties[i].status /= "active" => SpendsOf(bounties[i].txid) /= {}

\* A workflow marked the record 'canceled' after its cancelBounty call was
\* accepted, while the record of the other topic is still 'active'.
C14_Witness ==
    /\ \E i \in DOMAIN bounties :
          /\ bounties[i].status = "canceled"
          /\ \E s \in SpendsOf(bounties[i].txid) : s.method = "cancelBounty"
    /\ \E j \in DOMAIN bounties : bounties[j].status = "active"

\* The positions of the records stored under a key.
RecordsAt(coll, f) == {i \in DOMAIN coll : UniqueKey(coll[i]) = <<f.txid, f.outputIndex, f.topic>>}

\* C19: when createBounty has returned a created output and the outputAdded
\* observation for that output is then delivered, the index holds exactly
\* one record under the output's key, with status 'active' and the issue,
\* amount and deadline createBounty stored.
C19_CreateThenAddedOneActive ==
    [][\A t \in TxIds :
          LET f == Filter(t, OutputIndex0, "tm_bounty")
          IN  (/\ last.op = "createBounty" /\ last.result = "ok"
               /\ OutputAdded(t, OutputIndex0, "tm_bounty"))
              => /\ Cardinality(RecordsAt(bounties', f)) = 1
                 /\ \A i \in RecordsAt(bounties', f) :
                       /\ bounties'[i].status = "active"
                       /\ bounties'[i].issueId \in IssueIds
                       /\ bounties'[i].amount = LockedValue
                       /\ bounties'[i].deadline /= Absent]_vars

\* createBounty stored the record for "acme/widget#42", then outputAdded
\* for the created output was delivered and found the key present.
C19_Witness ==
    /\ last.op = "outputAdded" /\ last.logged /\ last.pre = "active"
    /\ Len(bounties) = 1
    /\ bounties[1].issueId = "acme/widget#42" /\ bounties[1].status = "active"
    /\ bounties[1].topic = "tm_bounty"
    /\ SpendsOf(bounties[1].txid) = {}

\* Output txid was paid out: a paySolver spend of it was accepted.
PaidOut(txid) == \E s \in SpendsOf(txid) : s.method = "paySolver"

\* C20: when payBounty returns, the record it addressed (while it is in the
\* index) is 'completed' with the solver's identity key, the pull request
\* and completedAt set; and once payBounty has paid the output out, every
\* payBounty, refundExpiredBounty or cancelBounty then started on the same
\* (txid, outputIndex) throws, and the ledger is left as it is.
C20_PaidThenNoSecondSpend ==
    [][\A w \in Workers :
          LET me == workers[w]
              j == FindIndex(bounties', Filter(me.txid, OutputIndex0, Null))
              Fails(op) == /\ last'.op = op /\ last'.result = "throw"
                           /\ workers'[w] = IdleWorker
                           /\ utxos' = utxos /\ bounties' = bounties
          IN  /\ (PayBounty_Write(w) /\ j /= 0)
                 => /\ bounties'[j].status = "completed"
                    /\ bounties'[j].solverIdentityKey = me.solverKey
                    /\ bounties'[j].solverIdentityKey /= Null
                    /\ bounties'[j].solutionPullRequestId = me.pr
                    /\ bounties'[j].completedAt = now
              /\ \A t \in TxIds :
                    (PaidOut(t) /\ me.pc = "idle")
                    => /\ \A u \in Usernames, pr \in PullRequests :
                             PayBounty_Read(w, t, u, pr) => Fails("payBounty")
                       /\ RefundExpiredBounty_Read(w, t)
                             => Fails("refundExpiredBounty")
                       /\ CancelBounty_Read(w, t) => Fails("cancelBounty")]_vars

\* payBounty completed the record, and a later cancelBounty on the same
\* output threw.
C20_Witness ==
    /\ last.op = "cancelBounty" /\ last.result = "throw"
    /\ \E i \in DOMAIN bounties :
          /\ bounties[i].status = "completed"
          /\ bounties[i].solverIdentityKey /= Null
          /\ bounties[i].solutionPullRequestId /= Null
          /\ PaidOut(bounties[i].txid)

(***************************************************************************)
(* Claims on store faults (checked under SpecFaults)                       *)
(***************************************************************************)
\* C15: no handler returns normally when its insert, update or delete did
\* not take effect because of a store fault.
C15_StoreFaultSurfaced ==
    ~(last.fault /\ last.result = "ok")

(***************************************************************************)
(* Claims on lookup (checked under SpecLookup)                             *)
(***************************************************************************)
\* C16: a lookup whose githubUsername is in no identity document returns
\* normally with an empty output list.
C16_UnknownUserEmpty ==
    (/\ last.op = "lookup"
     /\ Truthy(last.query.githubUsername)
     /\ GetGitHubIdentityByUsername(last.query.githubUsername) = NoKey)
    => /\ last.result = "ok"
       /\ last.answer.outputs = <<>>

\* A lookup for a username nobody registered, with a status filter, on an
\* index holding a 'tm_bounty' record of that status.
C16_Witness ==
    /\ last.op = "lookup"
    /\ last.query.githubUsername = "ghost"
    /\ last.query.status = "completed" /\ last.query.issueId = Null
    /\ last.query.repoOwner = Null
    /\ \E i \in DOMAIN bounties :
          bounties[i].topic = "tm_bounty" /\ bounties[i].status = "completed"

\* A record is associated with an identity key as its funder or its solver.
AssociatedWith(doc, key) ==
    doc.funderIdentityKey = key \/ doc.solverIdentityKey = key

\* A record passes the filters a query supplies on issueId, repoOwner and
\* status.
PassesFilters(doc, query) ==
    \A k \in {"issueId", "repoOwner", "status"} :
        query[k] /= Null => doc[k] = query[k]

\* The references of the records of the lookup's topic that pass the
\* supplied filters and, when a username is supplied, are associated with
\* the identity key it resolves to.
ExpectedRefs(query) ==
    LET key == IF query.githubUsername = Null THEN NoKey
               ELSE GetGitHubIdentityByUsername(query.githubUsername)
    IN  Refs(SelectSeq(bounties,
             LAMBDA d : /\ d.topic = "tm_bounty"
                        /\ PassesFilters(d, query)
                        /\ query.githubUsername /= Null =>
                               (key /= NoKey /\ AssociatedWith(d, key))))

\* C17: a lookup with the username of a registered user returns exactly the
\* references of the records associated with the user's identity key that
\* pass the other filters.
C17_RegisteredUserRecords ==
    (/\ last.op = "lookup"
     /\ last.query.githubUsername /= Null
     /\ GetGitHubIdentityByUsername(last.query.githubUsername) /= NoKey)
    => last.answer.outputs = ExpectedRefs(last.query)

\* C18: a lookup returns one reference for every record that passes all
\* the supplied filters (issueId, repoOwner, status, identity), in stored
\* order, and none for any other record.
C18_ExactMatchList ==
    last.op = "lookup" => last.answer.outputs = ExpectedRefs(last.query)

(***************************************************************************)
(* Claims on the workflows (checked under Spec)                            *)
(***************************************************************************)
\* The refund arguments the wallet can produce for a record's funder key.
RefundArgs(key) ==
    [sig : WalletSigs(key), pubKey : {key}, ownerSig : {NoSig},
     certifierSig : {NoSig}]

\* C21: a refundExpiredBounty started before the record's deadline throws
\* and leaves the record 'active' and the output unspent, and the contract
\* accepts no refund of the output before its deadline; when
\* refundExpiredBounty writes after an accepted refund the record is
\* 'expired'; and an 'expired' record stays 'expired' while it is indexed.
C21_RefundAroundDeadline ==
    [][/\ \A w \in Workers, t \in TxIds :
             LET f == Filter(t, OutputIndex0, Null)
                 i == FindIndex(bounties, f)
             IN  (/\ RefundExpiredBounty_Read(w, t)
                  /\ i /= 0
                  /\ bounties[i].status = "active"
                  /\ bounties[i].deadline /= Absent
                  /\ now < bounties[i].deadline)
                 => /\ last'.op = "refundExpiredBounty"
                    /\ last'.result = "throw"
                    /\ workers'[w] = IdleWorker
                    /\ bounties' = bounties /\ utxos' = utxos
                    /\ \A a \in RefundArgs(bounties[i].funderIdentityKey) :
                          ~LedgerAccepts(utxos[t], "refundExpired", a,
                                         BuiltTx(utxos[t], "refundExpired", a.pubKey),
                                         now)
       /\ \A w \in Workers :
             LET j == FindIndex(bounties',
                                Filter(workers[w].txid, OutputIndex0, Null))
             IN  (RefundExpiredBounty_Write(w) /\ j /= 0)
                 => bounties'[j].status = "expired"
       /\ \A f \in Keys3 :
             RecordStatus(bounties, f) = "expired"
             => RecordStatus(bounties', f) \in {"expired", "none"}]_vars

(***************************************************************************)
(* SpecQuery: Spec with lookups by owner and status between its steps      *)
(***************************************************************************)
\* question.query of the lookups issued: the active bounties of owner
\* "acme".
OwnerQuery ==
    [issueId |-> Null, repoOwner |-> "acme", status |-> "active",
     githubUsername |-> Null]

NextQuery == Next \/ Lookup(OwnerQuery)

SpecQuery == Init /\ [][NextQuery]_vars

\* The record createBounty stored for output txid is in the index.
CreatedFor(txid, repoOwner) ==
    LET i == FindIndex(bounties, Filter(txid, OutputIndex0, "tm_bounty"))
    IN  /\ i /= 0
        /\ bounties[i].issueId /= Null
        /\ bounties[i].repoOwner = repoOwner

\* C22: a lookup with status 'active' and repoOwner "acme" answers with
\* exactly the reference of the output createBounty recorded for "acme"
\* while that output is unspent, and with the empty list once payBounty has
\* paid the output out and returned.
C22_LookupBeforeAndAfterPayout ==
    (last.op = "lookup" /\ last.query = OwnerQuery)
    => \A t \in TxIds :
          /\ (CreatedFor(t, "acme") /\ SpendsOf(t) = {})
             => last.answer.outputs = <<[txid |-> t, outputIndex |-> OutputIndex0]>>
          /\ (PaidOut(t) /\ \A w \in Workers : workers[w].pc = "idle")
             => last.answer.outputs = <<>>

\* The lookup was issued after payBounty paid out and completed the record
\* createBounty stored for "acme".
C22_Witness ==
    /\ last.op = "lookup" /\ last.query = OwnerQuery
    /\ last.answer.outputs = <<>>
    /\ \E t \in TxIds :
          /\ PaidOut(t)
          /\ CreatedFor(t, "acme")
          /\ RecordStatus(bounties, Filter(t, OutputIndex0, "tm_bounty")) = "completed"
    /\ \A w \in Workers : workers[w].pc = "idle"

\* The lookup was issued after createBounty and before any spend.
C22_WitnessBefore ==
    /\ last.op = "lookup" /\ last.query = OwnerQuery
    /\ Len(last.answer.outputs) = 1
    /\ \E t \in TxIds : CreatedFor(t, "acme") /\ SpendsOf(t) = {}

(***************************************************************************)
(* The contract instance the workflows restore from a stored record        *)
(***************************************************************************)
\* What reading a field no code writes yields.
Undefined == <<"undefined">>

\* new BountyContract(...) of payBounty (lines 132-138), refundExpiredBounty
\* (lines 249-255) and cancelBounty (lines 310-316), from the record found.
RestoredInstance(op, bounty) ==
    [funderAddr |->
        IF op = "refundExpiredBounty" THEN pubKey2Addr(WalletKey)
        ELSE IF "funderAddress" \in DOMAIN bounty THEN bounty.funderAddress
        ELSE Undefined,
     issueId |-> NumericPart(bounty.issueId),
     repoOwner |->
        IF op = "refundExpiredBounty" THEN DocField(bounty, "repoOwnerIdentityKey")
        ELSE GetGitHubIdentityByUsername(bounty.repoOwner),
     certifierPubKey |-> CertifierPublicKey,
     deadline |-> bounty.deadline]

SpendWorkflows == {"payBounty", "refundExpiredBounty", "cancelBounty"}

\* C23: for every record createBounty stored, the contract parameters
\* payBounty, refundExpiredBounty and cancelBounty restore from the record
\* equal the parameters createBounty committed in the record's output.
C23_RestoredParamsEqualCommitted ==
    \A i \in DOMAIN bounties :
        (bounties[i].issueId /= Null /\ utxos[bounties[i].txid].deployed)
        => \A op \in SpendWorkflows :
              LET restored == RestoredInstance(op, bounties[i])
                  this == utxos[bounties[i].txid].this
              IN  /\ restored.funderAddr = this.funderAddr
                  /\ restored.issueId = this.issueId
                  /\ restored.repoOwner = this.repoOwner
                  /\ restored.certifierPubKey = this.certifierPubKey
                  /\ restored.deadline = this.deadline

(***************************************************************************)
(* BountyTopicManager, and SpecTopic: admittance of submitted transactions *)
(***************************************************************************)
\* 0x76.
OP_DUP == 118

\* Outputs of a submitted transaction.
MaxOutputs == 2

\* Locking scripts are byte sequences.  The bytes of a BountyContract
\* instance are the compiler's: a first byte, the template's opcodes
\* (abstracted to one element) and the instance's parameters; the first
\* byte is one of OP_0, a 20-byte push and OP_DUP.
TemplateHeads == {0, 20, OP_DUP}

TemplateBody == <<1>>

\* The parameter sets instances are created with: issueId and deadline vary,
\* the funder, owner and certifier are part of the template.
InstanceParams == [issueId : {7, 42}, deadline : {1, 2}]

LockingScript(head, P) == <<head>> \o TemplateBody \o <<P.issueId, P.deadline>>

\* The template with its parameters cut off.
TruncatedScript(head) == <<head>> \o TemplateBody

\* A pay-to-public-key-hash script (OP_DUP OP_HASH160 ...), a data script
\* (OP_RETURN) and the empty script.
OtherScripts == {<<OP_DUP, 169>>, <<106>>, <<>>}

OutputScripts(head) ==
    {LockingScript(head, P) : P \in InstanceParams}
    \cup {TruncatedScript(head)} \cup OtherScripts

\* Every non-empty script is taken for a bounty.
isBountyLockingScript_AnyScript(script) == Len(script) > 0

\* isBountyLockingScript, lines 154-162.
isBountyLockingScript(script) == Len(script) > 0 /\ script[1] = OP_DUP

\* identifyAdmissibleOutputs, lines 164-183: the indexes (from 0) of the
\* outputs isBountyLockingScript accepts, in order, and previousCoins.
identifyAdmissibleOutputs(outputs, previousCoins) ==
    LET idx == [i \in 1..Len(outputs) |-> i - 1]
    IN  [outputsToAdmit |->
            SelectSeq(idx, LAMBDA i : isBountyLockingScript(outputs[i + 1])),
         coinsToRetain |-> previousCoins]

InitTopic ==
    /\ now = 0
    /\ utxos = [t \in TxIds |-> NoOutput]
    /\ bounties = <<>>
    /\ identities = [u \in Usernames |-> NoKey]
    /\ workers = [w \in Workers |-> IdleWorker]
    /\ \E head \in TemplateHeads : last = [op |-> "compileContract", head |-> head]

\* The overlay hands a transaction to the topic manager.
IdentifyAdmissibleOutputs(outputs, previousCoins) ==
    /\ last' = [op |-> "identifyAdmissibleOutputs", head |-> last.head,
                result |-> "ok", outputs |-> outputs,
                previousCoins |-> previousCoins,
                answer |-> identifyAdmissibleOutputs(outputs, previousCoins)]
    /\ UNCHANGED <<now, utxos, bounties, identities, workers>>

NextTopic ==
    \E n \in 1..MaxOutputs :
        \E outputs \in [1..n -> OutputScripts(last.head)],
           previousCoins \in {<<>>, <<0>>, <<1, 0>>} :
            IdentifyAdmissibleOutputs(outputs, previousCoins)

SpecTopic == InitTopic /\ [][NextTopic]_vars

\* Output i (from 1) of the transaction last submitted was admitted.
Admitted(i) ==
    \E k \in DOMAIN last.answer.outputsToAdmit :
        last.answer.outputsToAdmit[k] = i - 1

IsInstance(script, head) ==
    \E P \in InstanceParams : script = LockingScript(head, P)

\* C24: the parameters an instance was created with are recovered from
\* the classification of its output: two instance outputs that
\* identifyAdmissibleOutputs classifies alike were created with equal
\* parameters.
C24_ClassificationRecoversParams ==
    last.op = "identifyAdmissibleOutputs"
    => \A i, j \in DOMAIN last.outputs :
          (/\ IsInstance(last.outputs[i], last.head)
           /\ IsInstance(last.outputs[j], last.head)
           /\ Admitted(i) = Admitted(j))
          => last.outputs[i] = last.outputs[j]

\* C25: identifyAdmissibleOutputs returns normally, admits every output
\* whose locking script is an instance of BountyContract, and does not
\* admit an output that has the contract's template without its parameters.
C25_NoFalseNegatives ==
    last.op = "identifyAdmissibleOutputs"
    => /\ last.result = "ok"
       /\ \A i \in DOMAIN last.outputs :
             /\ IsInstance(last.outputs[i], last.head) => Admitted(i)
             /\ last.outputs[i] = TruncatedScript(last.head) => ~Admitted(i)

\* C36: outputsToAdmit is the ascending list of exactly the indexes of the
\* outputs whose locking script is non-empty and starts with 0x76, and
\* coinsToRetain is the previousCoins argument as given.
C36_AdmitsExactlyOpDupOutputs ==
    last.op = "identifyAdmissibleOutputs"
    => LET admit == last.answer.outputsToAdmit
       IN  /\ \A k \in 1..(Len(admit) - 1) : admit[k] < admit[k + 1]
           /\ {admit[k] : k \in DOMAIN admit}
                 = {i - 1 : i \in {j \in DOMAIN last.outputs :
                                     /\ last.outputs[j] /= <<>>
                                     /\ Head(last.outputs[j]) = OP_DUP}}
           /\ last.answer.coinsToRetain = last.previousCoins

\* A transaction whose output 0 is a data script and whose output 1 starts
\* with OP_DUP, consuming two coins: output 1 alone is admitted.
C36_Witness ==
    /\ last.op = "identifyAdmissibleOutputs"
    /\ Len(last.outputs) = 2
    /\ last.outputs[1] = <<106>>
    /\ last.outputs[2] = <<OP_DUP, 169>>
    /\ last.previousCoins = <<1, 0>>
    /\ last.answer.outputsToAdmit = <<1>>
    /\ last.answer.coinsToRetain = <<1, 0>>

(***************************************************************************)
(* SpecClaim: Spec with the claim route in front of payBounty              *)
(***************************************************************************)
\* req.body.prId: "pr7" is the pull request that resolves "acme/widget#42"
\* and that its owner approved; "pr9" is a pull request that does neither.
ClaimPullRequests == PullRequests \cup {"pr9"}

ResolvingPullRequests == {"pr7"}

\* res.status(code).json(...) before payBounty is called.
Respond(w, code) ==
    /\ last' = Outcome("claim", 0, Null, code, FALSE, "none")
    /\ UNCHANGED <<now, utxos, bounties, identities, workers>>

\* The caller's identity is looked up before the fields are validated.
ClaimRoute_IdentityFirst(w, user, txid, prId) ==
    /\ workers[w].pc = "idle"
    /\ IF user = Null THEN Respond(w, "401")
       ELSE IF GetGitHubIdentityByUsername(user) = NoKey THEN Respond(w, "403")
       ELSE IF prId = Null THEN Respond(w, "400")
       ELSE PayBounty_Read(w, txid, user, prId)

\* POST /bounties/:txid/:outputIndex/claim, lines 95-137.  user is the
\* session's username, Null when the request is not authenticated.
ClaimRoute(w, user, txid, prId) ==
    /\ workers[w].pc = "idle"
    /\ IF user = Null THEN Respond(w, "401")
       ELSE IF prId = Null THEN Respond(w, "400")
       ELSE IF GetGitHubIdentityByUsername(user) = NoKey THEN Respond(w, "403")
       ELSE PayBounty_Read(w, txid, user, prId)

NextClaim ==
    \/ Next
    \/ \E w \in Workers, user \in Usernames \cup {Null}, t \in TxIds,
          prId \in ClaimPullRequests \cup {Null} : ClaimRoute(w, user, t, prId)

SpecClaim == Init /\ [][NextClaim]_vars

\* C26: whenever payBounty's contract call spends the escrow output, the
\* pull request of the claim is one that resolves the bounty's issue and has
\* the repository owner's approval.
C26_PayoutOnlyForVerifiedClaim ==
    [][\A w \in Workers :
          (PayBounty_Call(w) /\ utxos' /= utxos)
          => workers[w].pr \in ResolvingPullRequests]_vars

\* The contract method a workflow calls, and the status it writes.
MethodOf(op) ==
    CASE op = "payBounty" -> "paySolver"
      [] op = "refundExpiredBounty" -> "refundExpired"
      [] op = "cancelBounty" -> "cancelBounty"

StatusOf(op) ==
    CASE op = "payBounty" -> "completed"
      [] op = "refundExpiredBounty" -> "expired"
      [] op = "cancelBounty" -> "canceled"

\* Worker w takes a step of workflow op before its update: the read and
\* the checks, or the contract call.
StepBeforeWrite(w, op) ==
    CASE op = "payBounty" ->
            \/ \E t \in TxIds, u \in Usernames, pr \in PullRequests :
                  PayBounty_Read(w, t, u, pr)
            \/ PayBounty_Call(w)
      [] op = "refundExpiredBounty" ->
            \/ \E t \in TxIds : RefundExpiredBounty_Read(w, t)
            \/ RefundExpiredBounty_Call(w)
      [] op = "cancelBounty" ->
            \/ \E t \in TxIds : CancelBounty_Read(w, t)
            \/ CancelBounty_Call(w)

\* C27: a record takes the status a workflow writes ('completed' with the
\* solver set, 'expired', 'canceled') only in a step taken after the
\* workflow's contract method was accepted for the record's output; and a
\* workflow that ends before its update throws and leaves the index, every
\* field of every record included, and the ledger as they were.
C27_WriteOnlyAfterCallReturned ==
    [][/\ \A f \in Keys3, op \in SpendWorkflows :
             LET j == FindIndex(bounties', f)
             IN  (/\ j /= 0
                  /\ bounties'[j].status = StatusOf(op)
                  /\ SetByWorkflow(bounties'[j])
                  /\ RecordStatus(bounties, f) /= StatusOf(op))
                 => \E s \in SpendsOf(f.txid) : s.method = MethodOf(op)
       /\ \A w \in Workers, op \in SpendWorkflows :
             (StepBeforeWrite(w, op) /\ workers'[w].pc = "idle")
             => /\ last'.op = op /\ last'.result = "throw"
                /\ bounties' = bounties
                /\ utxos' = utxos]_vars

\* cancelBounty threw at or before its contract call: the record it read is
\* still 'active' with its fields, and the output is unspent.
C27_Witness ==
    /\ last.op = "cancelBounty" /\ last.result = "throw"
    /\ \E i \in DOMAIN bounties :
          /\ bounties[i].status = "active"
          /\ bounties[i].issueId /= Null
          /\ bounties[i].completedAt = Absent
          /\ GetGitHubIdentityByUsername(bounties[i].repoOwner) /= NoKey
          /\ SpendsOf(bounties[i].txid) = {}

\* Worker w starts workflow op on output txid.
StartOf(w, op, txid) ==
    CASE op = "payBounty" ->
            \E u \in Usernames, pr \in PullRequests : PayBounty_Read(w, txid, u, pr)
      [] op = "refundExpiredBounty" -> RefundExpiredBounty_Read(w, txid)
      [] op = "cancelBounty" -> CancelBounty_Read(w, txid)

\* C28: payBounty, refundExpiredBounty and cancelBounty started on a
\* (txid, outputIndex) for which findOne gives no record, or a record whose
\* status is not 'active', throw: the worker makes no contract call and the
\* index and the ledger are left as they were.
C28_AbsentOrInactiveThrows ==
    [][\A w \in Workers, op \in SpendWorkflows, t \in TxIds :
          (/\ StartOf(w, op, t)
           /\ RecordStatus(bounties, Filter(t, OutputIndex0, Null)) /= "active")
          => /\ last'.op = op /\ last'.result = "throw"
             /\ workers'[w] = IdleWorker
             /\ bounties' = bounties
             /\ utxos' = utxos]_vars

\* payBounty threw on an output whose record cancelBounty had set to
\* 'canceled'.
C28_Witness ==
    /\ last.op = "payBounty" /\ last.result = "throw"
    /\ \E t \in TxIds :
          /\ RecordStatus(bounties, Filter(t, OutputIndex0, Null)) = "canceled"
          /\ \A s \in SpendsOf(t) : s.method = "cancelBounty"

\* refundExpiredBounty threw on a deployed output that has no record.
C28_WitnessNoRecord ==
    /\ last.op = "refundExpiredBounty" /\ last.result = "throw"
    /\ bounties = <<>>
    /\ \E t \in TxIds : utxos[t].deployed

\* C29: createBounty for an owner, payBounty for a solver or on a record
\* whose owner, and cancelBounty on a record whose owner has no identity
\* document throw: nothing is deployed or spent, no contract call is made
\* and the index is left as it was.
C29_UnregisteredUserDenied ==
    [][\A w \in Workers :
          LET Denied(op) == /\ last'.op = op /\ last'.result = "throw"
                            /\ workers'[w] = IdleWorker
                            /\ bounties' = bounties
                            /\ utxos' = utxos
              OwnerKey(t) ==
                  GetGitHubIdentityByUsername(
                      bounties[FindIndex(bounties, Filter(t, OutputIndex0, Null))].repoOwner)
              Found(t) == FindIndex(bounties, Filter(t, OutputIndex0, Null)) /= 0
          IN  /\ \A i \in IssueIds, o \in Usernames :
                    (/\ CreateBounty_Deploy(w, i, o)
                     /\ GetGitHubIdentityByUsername(o) = NoKey)
                    => Denied("createBounty")
              /\ \A t \in TxIds, u \in Usernames, pr \in PullRequests :
                    (/\ PayBounty_Read(w, t, u, pr)
                     /\ \/ GetGitHubIdentityByUsername(u) = NoKey
                        \/ Found(t) /\ OwnerKey(t) = NoKey)
                    => Denied("payBounty")
              /\ \A t \in TxIds :
                    (CancelBounty_Read(w, t) /\ Found(t) /\ OwnerKey(t) = NoKey)
                    => Denied("cancelBounty")]_vars

\* createBounty threw while nobody had an identity document: nothing was
\* deployed and the index is empty.
C29_Witness ==
    /\ last.op = "createBounty" /\ last.result = "throw"
    /\ \A u \in Usernames : identities[u] = NoKey
    /\ \A t \in TxIds : ~utxos[t].deployed
    /\ bounties = <<>>
    /\ \A w \in Workers : workers[w] = IdleWorker

\* payBounty threw on an active, unspent bounty of a registered owner while
\* the other user had no identity document; no worker is at a contract call.
C29_WitnessSolver ==
    /\ last.op = "payBounty" /\ last.result = "throw"
    /\ \E u \in Usernames : identities[u] = NoKey
    /\ \E i \in DOMAIN bounties :
          /\ bounties[i].status = "active"
          /\ bounties[i].issueId /= Null
          /\ SpendsOf(bounties[i].txid) = {}
    /\ \A w \in Workers : workers[w] = IdleWorker

\* C30: in whichever order createBounty's insert and the outputAdded
\* observation of the created output run, createBounty returns without
\* error once the deployment has succeeded, and the index then holds one
\* 'active' record under the output's key with the issueId, repoOwner,
\* funderIdentityKey, amount and deadline of the creation.
C30_CreateAndAddedEitherOrder ==
    [][\A w \in Workers :
          LET me == workers[w]
              f == Filter(me.txid, OutputIndex0, "tm_bounty")
          IN  CreateBounty_Insert(w)
              => /\ last'.op = "createBounty" /\ last'.result = "ok"
                 /\ Cardinality(RecordsAt(bounties', f)) = 1
                 /\ \A i \in RecordsAt(bounties', f) :
                       /\ bounties'[i].status = "active"
                       /\ bounties'[i].issueId = me.issueId
                       /\ bounties'[i].repoOwner = me.repoOwner
                       /\ bounties'[i].funderIdentityKey = me.funderKey
                       /\ bounties'[i].amount = utxos[me.txid].value
                       /\ bounties'[i].deadline = me.deadline]_vars

(***************************************************************************)
(* SpecRace: two workflow calls in flight on one stored bounty             *)
(***************************************************************************)
\* Two requests are served at a time.
RaceWorkers == {1, 2}

\* The state createBounty leaves: both users registered, the output
\* deployed, its record stored.
InitRace ==
    /\ now = 0
    /\ utxos = [t \in TxIds |->
                  [deployed |-> TRUE, this |-> StoredScript,
                   value |-> LockedValue, spends |-> {}]]
    /\ bounties = <<[BareDoc(1, OutputIndex0, StoredScript, "tm_bounty", 0)
                       EXCEPT !.issueId = "acme/widget#42", !.repoOwner = "acme",
                              !.funderIdentityKey = WalletKey,
                              !.amount = LockedValue,
                              !.deadline = DeadlineSeconds]>>
    /\ identities = [u \in Usernames |-> CertifiedKey(u)]
    /\ workers = [w \in RaceWorkers |-> IdleWorker]
    /\ last = NoCall

NextRace ==
    \/ ClockTick
    \/ \E t \in TxIds : OutputSpent(t, OutputIndex0, "tm_bounty")
    \/ \E w \in RaceWorkers, t \in TxIds, u \in Usernames, pr \in PullRequests :
          PayBounty_Read(w, t, u, pr)
    \/ \E w \in RaceWorkers : PayBounty_Call(w)
    \/ \E w \in RaceWorkers : PayBounty_Write(w)
    \/ \E w \in RaceWorkers, t \in TxIds : RefundExpiredBounty_Read(w, t)
    \/ \E w \in RaceWorkers : RefundExpiredBounty_Call(w)
    \/ \E w \in RaceWorkers : RefundExpiredBounty_Write(w)
    \/ \E w \in RaceWorkers, t \in TxIds : CancelBounty_Read(w, t)
    \/ \E w \in RaceWorkers : CancelBounty_Call(w)
    \/ \E w \in RaceWorkers : CancelBounty_Write(w)

SpecRace == InitRace /\ [][NextRace]_vars

\* Worker w performs its workflow's terminal status write.
WriteOf(w) ==
    \/ PayBounty_Write(w)
    \/ RefundExpiredBounty_Write(w)
    \/ CancelBounty_Write(w)

\* C31: of the workflow calls in flight on one record, a call comes to its
\* status write only by the step in which the ledger accepts its spend of
\* the still unspent output, so at most one call per output ever writes;
\* and the status it writes is that of the transition the ledger accepted.
C31_OneWriterPerOutput ==
    [][\A w \in RaceWorkers :
          LET me == workers[w]
              t == workers'[w].txid
              j == FindIndex(bounties', Filter(me.txid, OutputIndex0, Null))
          IN  /\ (workers'[w].pc = "write" /\ me.pc /= "write")
                 => /\ SpendsOf(t) = {}
                    /\ \A v \in RaceWorkers : workers[v].pc /= "write"
                    /\ \E s \in utxos'[t].spends : s.method = MethodOf(workers'[w].op)
              /\ \A t2 \in TxIds : SpendsOf(t2) \subseteq utxos'[t2].spends
              /\ (WriteOf(w) /\ j /= 0)
                 => /\ bounties'[j].status = StatusOf(me.op)
                    /\ \A s \in SpendsOf(me.txid) : s.method = MethodOf(me.op)
                    /\ SpendsOf(me.txid) /= {}]_vars

\* cancelBounty's call was rejected while the other call, a payBounty that
\* read the same active record, had its spend accepted and is at its write.
C31_Witness ==
    /\ last.op = "cancelBounty" /\ last.result = "throw"
    /\ workers[1].pc = "idle"
    /\ workers[2].op = "payBounty" /\ workers[2].pc = "write"
    /\ PaidOut(1)
    /\ RecordStatus(bounties, Filter(1, OutputIndex0, Null)) = "active"

(***************************************************************************)
(* Claims on the order of observations (checked under Spec)                *)
(***************************************************************************)
\* The last call was an outputSpent for key f that found no record: f has
\* no record while every other key of the output has one, so the key
\* outputSpent missed is f.
SpentDeliveredFirst(f) ==
    /\ last.op = "outputSpent" /\ last.pre = "none"
    /\ RecordStatus(bounties, f) = "none"
    /\ \A g \in Keys3 \ {f} :
          g.txid = f.txid => RecordStatus(bounties, g) /= "none"

\* C32: once outputAdded and outputSpent have both been delivered for a
\* key, the key's record is not 'active', in either order: an outputSpent
\* on a stored record leaves it non-active, and an outputAdded that follows
\* an outputSpent delivered before the record existed leaves it non-active.
C32_OrderOfAddedAndSpent ==
    [][\A f \in Keys3 :
          /\ (/\ OutputSpent(f.txid, f.outputIndex, f.topic)
              /\ RecordStatus(bounties, f) /= "none")
             => RecordStatus(bounties', f) \notin {"active", "none"}
          /\ (/\ SpentDeliveredFirst(f)
              /\ OutputAdded(f.txid, f.outputIndex, f.topic))
             => RecordStatus(bounties', f) \notin {"active", "none"}]_vars

\* C33: the terminal status write of payBounty, refundExpiredBounty or
\* cancelBounty inserts no record: after outputDeleted removed the record a
\* write still in flight leaves the index without it, and a key that has no
\* record gets one only in an outputAdded or a createBounty step.
C33_LaggingWriteDoesNotRecreate ==
    [][/\ \A w \in Workers :
             WriteOf(w) => /\ Len(bounties') = Len(bounties)
                           /\ IndexedKeys(bounties') = IndexedKeys(bounties)
       /\ \A f \in Keys3 :
             (RecordStatus(bounties, f) = "none" /\ RecordStatus(bounties', f) /= "none")
             => \/ OutputAdded(f.txid, f.outputIndex, f.topic)
                \/ \E w \in Workers : CreateBounty_Insert(w)]_vars

\* payBounty's write came after outputDeleted had removed the record it
\* read: the output is paid out, payBounty returned, the index is empty.
C33_Witness ==
    /\ last.op = "payBounty" /\ last.result = "ok"
    /\ bounties = <<>>
    /\ \E t \in TxIds : PaidOut(t)

\* The record createBounty stored for output txid is 'active'.
CreatedActive(txid) ==
    LET i == FindIndex(bounties, Filter(txid, OutputIndex0, "tm_bounty"))
    IN  i /= 0 /\ bounties[i].issueId /= Null /\ bounties[i].status = "active"

\* C34: the workflows read and write the record stored under 'tm_bounty'
\* only: a write step leaves every record of another topic as it was, and
\* cancelBounty started on an output whose 'tm_bounty' record is the active
\* one createBounty stored passes its guard, whatever is stored for the
\* output under another topic.
C34_WorkflowsActOnBountyTopicOnly ==
    [][\A w \in Workers :
          /\ WriteOf(w)
             => \A i \in DOMAIN bounties :
                   bounties[i].topic /= "tm_bounty"
                   => /\ i \in DOMAIN bounties'
                      /\ bounties'[i] = bounties[i]
          /\ \A t \in TxIds :
                (CancelBounty_Read(w, t) /\ CreatedActive(t))
                => workers'[w].pc = "call"]_vars

(***************************************************************************)
(* SpecCompile: construction of BountyService and BountyTopicManager       *)
(***************************************************************************)
Classes == {"BountyService", "BountyTopicManager"}

\* (Classes \X (1..MaxInstances)) constructed of each class.
MaxInstances == 2

\* workers holds the initializeContract call of each instance, last the
\* static isInitialized of each class and the compileContract calls made.
InitCompile ==
    /\ now = 0
    /\ utxos = [t \in TxIds |-> NoOutput]
    /\ bounties = <<>>
    /\ identities = [u \in Usernames |-> NoKey]
    /\ workers = [x \in (Classes \X (1..MaxInstances)) |-> IdleWorker]
    /\ last = [op |-> "none",
               isInitialized |-> [c \in Classes |-> FALSE],
               compilations |-> [c \in Classes |-> 0]]

\* new C(...): the constructor calls initializeContract, which runs to its
\* await: it tests the flag and, when it is not set, calls compileContract.
Construct(c, n) ==
    /\ workers[<<c, n>>].pc = "idle"
    /\ IF last.isInitialized[c]
       THEN /\ workers' = [workers EXCEPT ![<<c, n>>] =
                              [IdleWorker EXCEPT !.op = "initializeContract",
                                                 !.pc = "done"]]
            /\ last' = [last EXCEPT !.op = "constructor"]
       ELSE /\ workers' = [workers EXCEPT ![<<c, n>>] =
                              [IdleWorker EXCEPT !.op = "initializeContract",
                                                 !.pc = "compile"]]
            /\ last' = [last EXCEPT !.op = "constructor",
                                    !.compilations[c] = @ + 1]
    /\ UNCHANGED <<now, utxos, bounties, identities>>

\* compileContract resolves: the flag is set.
CompileResolved(c, n) ==
    /\ workers[<<c, n>>].pc = "compile"
    /\ workers' = [workers EXCEPT ![<<c, n>>].pc = "done"]
    /\ last' = [last EXCEPT !.op = "initializeContract", !.isInitialized[c] = TRUE]
    /\ UNCHANGED <<now, utxos, bounties, identities>>

\* compileContract rejects: initializeContract ends without setting the flag.
CompileRejected(c, n) ==
    /\ workers[<<c, n>>].pc = "compile"
    /\ workers' = [workers EXCEPT ![<<c, n>>].pc = "failed"]
    /\ last' = [last EXCEPT !.op = "initializeContract"]
    /\ UNCHANGED <<now, utxos, bounties, identities>>

NextCompile ==
    \/ \E x \in (Classes \X (1..MaxInstances)) : Construct(x[1], x[2])
    \/ \E x \in (Classes \X (1..MaxInstances)) : CompileResolved(x[1], x[2])
    \/ \E x \in (Classes \X (1..MaxInstances)) : CompileRejected(x[1], x[2])

SpecCompile == InitCompile /\ [][NextCompile]_vars

\* C35: compileContract is called at most once for each class, however
\* many instances are constructed and also while an earlier instance's
\* compilation is still running.
C35_CompiledOncePerClass ==
    \A c \in Classes : last.compilations[c] <= 1

(***************************************************************************)
(* SpecRoutes: the four POST routes in front of the workflows              *)
(***************************************************************************)
\* res.status(code).json(...) of a route that calls no workflow.
RespondFrom(route, code) ==
    /\ last' = Outcome(route, 0, Null, code, FALSE, "none")
    /\ UNCHANGED <<now, utxos, bounties, identities, workers>>

\* POST /bounties, lines 47-89.
CreateRoute(w, user, issueId, repoOwner, amount) ==
    /\ workers[w].pc = "idle"
    /\ IF user = Null THEN RespondFrom("create", "401")
       ELSE IF issueId = Null \/ repoOwner = Null \/ amount = 0
            THEN RespondFrom("create", "400")
       ELSE IF GetGitHubIdentityByUsername(user) = NoKey
            THEN RespondFrom("create", "403")
       ELSE CreateBounty_Deploy(w, issueId, repoOwner)

\* POST /bounties/:txid/:outputIndex/refund, lines 143-166.
RefundRoute(w, user, txid) ==
    /\ workers[w].pc = "idle"
    /\ IF user = Null THEN RespondFrom("refund", "401")
       ELSE RefundExpiredBounty_Read(w, txid)

\* POST /bounties/:txid/:outputIndex/cancel, lines 172-195.
CancelRoute(w, user, txid) ==
    /\ workers[w].pc = "idle"
    /\ IF user = Null THEN RespondFrom("cancel", "401")
       ELSE CancelBounty_Read(w, txid)

NextRoutes ==
    \/ ClockTick
    \/ \E u \in Usernames : StoreGitHubIdentity(u, CertifiedKey(u))
    \/ \E w \in Workers, user \in (Usernames \cup {Null}), i \in IssueIds \cup {Null},
          o \in Usernames \cup {Null}, amount \in {0, LockedValue} :
          CreateRoute(w, user, i, o, amount)
    \/ \E w \in Workers : CreateBounty_Insert(w)
    \/ \E w \in Workers, user \in (Usernames \cup {Null}), t \in TxIds,
          prId \in PullRequests \cup {Null} : ClaimRoute(w, user, t, prId)
    \/ \E w \in Workers : PayBounty_Call(w)
    \/ \E w \in Workers : PayBounty_Write(w)
    \/ \E w \in Workers, user \in (Usernames \cup {Null}), t \in TxIds : RefundRoute(w, user, t)
    \/ \E w \in Workers : RefundExpiredBounty_Call(w)
    \/ \E w \in Workers : RefundExpiredBounty_Write(w)
    \/ \E w \in Workers, user \in (Usernames \cup {Null}), t \in TxIds : CancelRoute(w, user, t)
    \/ \E w \in Workers : CancelBounty_Call(w)
    \/ \E w \in Workers : CancelBounty_Write(w)

SpecRoutes == Init /\ [][NextRoutes]_vars

\* C37: a request that is not authenticated is answered 401 by each of the
\* four routes; an authenticated create or claim with a required field
\* missing is answered 400, and one with all fields from a caller without
\* an identity document 403; in each case no BountyService workflow is
\* started and nothing is deployed, spent or written.
C37_RoutesRejectBeforeWorkflow ==
    [][\A w \in Workers, t \in TxIds :
          LET Answers(route, code) ==
                  /\ last'.op = route /\ last'.result = code
                  /\ workers' = workers
                  /\ utxos' = utxos /\ bounties' = bounties
              NoIdentity(user) == GetGitHubIdentityByUsername(user) = NoKey
          IN  /\ \A i \in IssueIds \cup {Null}, o \in Usernames \cup {Null},
                    amount \in {0, LockedValue} :
                    /\ CreateRoute(w, Null, i, o, amount) => Answers("create", "401")
                    /\ \A user \in Usernames :
                          CreateRoute(w, user, i, o, amount)
                          => /\ (i = Null \/ o = Null \/ amount = 0)
                                => Answers("create", "400")
                             /\ (i /= Null /\ o /= Null /\ amount /= 0
                                 /\ NoIdentity(user))
                                => Answers("create", "403")
              /\ \A prId \in PullRequests \cup {Null} :
                    /\ ClaimRoute(w, Null, t, prId) => Answers("claim", "401")
                    /\ \A user \in Usernames :
                          ClaimRoute(w, user, t, prId)
                          => /\ prId = Null => Answers("claim", "400")
                             /\ (prId /= Null /\ NoIdentity(user))
                                => Answers("claim", "403")
              /\ RefundRoute(w, Null, t) => Answers("refund", "401")
              /\ CancelRoute(w, Null, t) => Answers("cancel", "401")]_vars

\* A claim on a stored, active bounty was answered 403: some user has no
\* identity document, and no workflow is in flight.
C37_Witness ==
    /\ last.op = "claim" /\ last.result = "403"
    /\ \E u \in Usernames : identities[u] = NoKey
    /\ \E t \in TxIds : CreatedActive(t)
    /\ \A w \in Workers : workers[w] = IdleWorker

(***************************************************************************)
(* GET /bounties, and SpecGet: listings of stored indexes                  *)
(***************************************************************************)
\* getActiveBounties' default limit.
DefaultLimit == 20

\* .sort({ createdAt: -1 }): newest first, equal dates in stored order.
RECURSIVE SortByCreatedAtDesc(_)
SortByCreatedAtDesc(docs) ==
    IF docs = <<>> THEN <<>>
    ELSE LET rest == SortByCreatedAtDesc(Tail(docs))
             d == Head(docs)
             before == SelectSeq(rest, LAMBDA x : x.createdAt > d.createdAt)
             after == SelectSeq(rest, LAMBDA x : x.createdAt <= d.createdAt)
         IN  before \o <<d>> \o after

\* getActiveBounties, lines 188-194.
getActiveBounties(limit) ==
    LET docs == SortByCreatedAtDesc(Find(bounties, [status |-> "active"]))
    IN  SubSeq(docs, 1, IF Len(docs) < limit THEN Len(docs) ELSE limit)

\* getBountiesByIssue, lines 199-204.
getBountiesByIssue(issueId) ==
    SortByCreatedAtDesc(Find(bounties, [issueId |-> issueId]))

\* getBountiesByFunder, lines 209-214.
getBountiesByFunder(funderIdentityKey) ==
    SortByCreatedAtDesc(Find(bounties, [funderIdentityKey |-> funderIdentityKey]))

\* getBountiesByRepoOwner, lines 219-224.
getBountiesByRepoOwner(repoOwner) ==
    SortByCreatedAtDesc(Find(bounties, [repoOwner |-> repoOwner]))

\* GET /bounties, lines 19-41: the first branch whose filter is supplied.
getBounties(query) ==
    IF query.status = "active" THEN getActiveBounties(DefaultLimit)
    ELSE IF Truthy(query.issueId) THEN getBountiesByIssue(query.issueId)
    ELSE IF Truthy(query.repoOwner) THEN getBountiesByRepoOwner(query.repoOwner)
    ELSE IF Truthy(query.funder) THEN getBountiesByFunder(query.funder)
    ELSE getActiveBounties(DefaultLimit)

GetBounties(query) ==
    /\ last' = [op |-> "getBounties", result |-> "ok", logged |-> FALSE,
                pre |-> "none", fault |-> FALSE, query |-> query,
                answer |-> getBounties(query)]
    /\ UNCHANGED <<now, utxos, bounties, identities, workers>>

\* req.query: each filter absent (Null) or supplied.
NextGet ==
    \E query \in [status : {Null, "active", "completed"},
                  issueId : {Null, "acme/widget#42"},
                  repoOwner : {Null, "acme"}, funder : {Null, WalletKey}] :
       GetBounties(query)

SpecGet == InitLookup /\ [][NextGet]_vars

\* The field of a bounty document a filter of GET /bounties is about.
FieldOfFilter(k) == IF k = "funder" THEN "funderIdentityKey" ELSE k

\* C38: every bounty GET /bounties returns satisfies every filter the
\* request supplies (status, issueId, repoOwner, funder).
C38_ListedBountiesPassAllFilters ==
    last.op = "getBounties"
    => \A i \in DOMAIN last.answer :
          \A k \in DOMAIN last.query :
             last.query[k] /= Null
             => last.answer[i][FieldOfFilter(k)] = last.query[k]

(***************************************************************************)
(* SpecFrontend: the App component's SDK state and its three handlers      *)
(***************************************************************************)
\* Invocations of one handler that may be in flight together.
MaxCalls == 2

FrontendCalls == {"handleCreateBounty", "fetchBounties", "handleClaimBounty"} \X (1..MaxCalls)

\* Rows a bounty list response may carry.
MaxRows == 1

\* useState initial values.  last holds the component's state (walletClient
\* and authFetch as "is not null") and what the last step was: the handler
\* it belongs to, whether the step invoked it, whether the handler finished
\* in it, and how far the invocation got.  workers holds the await each
\* invocation in flight is suspended at.
InitFrontend ==
    /\ now = 0
    /\ utxos = [t \in TxIds |-> NoOutput]
    /\ bounties = <<>>
    /\ identities = [u \in Usernames |-> NoKey]
    /\ workers = [c \in FrontendCalls |-> IdleWorker]
    /\ last = [op |-> "none", called |-> FALSE, finished |-> FALSE, valid |-> FALSE,
               result |-> "none", sdk |-> "pending",
               walletClient |-> FALSE, authFetch |-> FALSE,
               isLoading |-> FALSE, view |-> "home",
               issueId |-> "", repoOwner |-> "", amount |-> 10000,
               rows |-> 0, errorMessage |-> ""]

\* The step of `app` is an event that is no handler step.
Event(app, name) ==
    [app EXCEPT !.op = name, !.called = FALSE, !.finished = FALSE,
                !.valid = FALSE, !.result = "none"]

\* The lowest invocation slot of handler h that is free.
FreeCall(h, n) ==
    /\ workers[<<h, n>>].pc = "idle"
    /\ \A m \in 1..(n - 1) : workers[<<h, m>>].pc # "idle"

\* The mount effect: new WalletClient, new AuthFetch(wallet), setAuthFetch;
\* any of the constructors may throw, which is caught and logged.
SdkInitEffect(ok) ==
    /\ last.sdk = "pending"
    /\ last' = IF ok
               THEN [Event(last, "useEffect") EXCEPT !.sdk = "ok", !.authFetch = TRUE]
               ELSE [Event(last, "useEffect") EXCEPT !.sdk = "error"]
    /\ UNCHANGED <<now, utxos, bounties, identities, workers>>

\* fetchBounties up to its first await: setIsLoading(true), the guard, and
\* either the authFetch request or, from the catch block, the error message
\* and the plain fetch.
fetchBounties_Start(app) ==
    IF ~app.walletClient \/ ~app.authFetch
    THEN [app |-> [app EXCEPT !.op = "fetchBounties", !.called = TRUE,
                              !.finished = FALSE, !.valid = TRUE,
                              !.result = "SDK components not initialized",
                              !.isLoading = TRUE, !.errorMessage = "SDK components not initialized"],
          pc |-> "fallback"]
    ELSE [app |-> [app EXCEPT !.op = "fetchBounties", !.called = TRUE,
                              !.finished = FALSE, !.valid = TRUE,
                              !.result = "requested", !.isLoading = TRUE],
          pc |-> "request"]

\* setView(v) from the navigation buttons; the [view] effect calls
\* fetchBounties when the view has become 'viewBounties'.
SetView(v, n) ==
    /\ last.sdk # "pending"
    /\ v # last.view
    /\ IF v = "viewBounties"
       THEN /\ FreeCall("fetchBounties", n)
            /\ LET s == fetchBounties_Start([last EXCEPT !.view = v])
               IN  /\ last' = s.app
                   /\ workers' = [workers EXCEPT ![<<"fetchBounties", n>>].pc = s.pc]
       ELSE /\ n = 1
            /\ last' = [Event(last, "setView") EXCEPT !.view = v]
            /\ UNCHANGED workers
    /\ UNCHANGED <<now, utxos, bounties, identities>>

\* The Refresh button of the bounties view.
RefreshBounties(n) ==
    /\ last.sdk # "pending"
    /\ last.view = "viewBounties"
    /\ FreeCall("fetchBounties", n)
    /\ LET s == fetchBounties_Start(last)
       IN  /\ last' = s.app
           /\ workers' = [workers EXCEPT ![<<"fetchBounties", n>>].pc = s.pc]
    /\ UNCHANGED <<now, utxos, bounties, identities>>

\* onChange of the create form's inputs.
SetIssueId(v) ==
    /\ last.sdk # "pending"
    /\ last.view = "createBounty"
    /\ v # last.issueId
    /\ last' = [Event(last, "onChange") EXCEPT !.issueId = v]
    /\ UNCHANGED <<now, utxos, bounties, identities, workers>>

SetRepoOwner(v) ==
    /\ last.sdk # "pending"
    /\ last.view = "createBounty"
    /\ v # last.repoOwner
    /\ last' = [Event(last, "onChange") EXCEPT !.repoOwner = v]
    /\ UNCHANGED <<now, utxos, bounties, identities, workers>>

SetAmount(v) ==
    /\ last.sdk # "pending"
    /\ last.view = "createBounty"
    /\ v # last.amount
    /\ last' = [Event(last, "onChange") EXCEPT !.amount = v]
    /\ UNCHANGED <<now, utxos, bounties, identities, workers>>

\* handleCreateBounty up to its first await (the submit button is disabled
\* while isLoading): the validation, the guard, the request; a throw runs
\* the catch and the finally blocks.
HandleCreateBounty(n) ==
    /\ last.sdk # "pending"
    /\ last.view = "createBounty"
    /\ ~last.isLoading
    /\ FreeCall("handleCreateBounty", n)
    /\ LET valid == last.issueId # "" /\ last.repoOwner # "" /\ last.amount >= 1000
           app == [last EXCEPT !.op = "handleCreateBounty", !.called = TRUE,
                               !.valid = valid]
       IN  IF ~valid
           THEN /\ last' = [app EXCEPT !.finished = TRUE, !.result = "Please fill all required fields with valid values",
                                       !.errorMessage = "Please fill all required fields with valid values",
                                       !.isLoading = FALSE]
                /\ UNCHANGED workers
           ELSE IF ~last.walletClient \/ ~last.authFetch
           THEN /\ last' = [app EXCEPT !.finished = TRUE, !.result = "SDK components not initialized",
                                       !.errorMessage = "SDK components not initialized",
                                       !.isLoading = FALSE]
                /\ UNCHANGED workers
           ELSE /\ last' = [app EXCEPT !.finished = FALSE, !.result = "requested",
                                       !.errorMessage = "", !.isLoading = TRUE]
                /\ workers' = [workers EXCEPT ![<<"handleCreateBounty", n>>].pc = "request"]
    /\ UNCHANGED <<now, utxos, bounties, identities>>

\* handleClaimBounty up to its first await, from the Claim button of a
\* listed bounty: the guard, the prompt (prId, '' when dismissed), the
\* request.
HandleClaimBounty(n, prId) ==
    /\ last.sdk # "pending"
    /\ last.view = "viewBounties"
    /\ last.rows > 0
    /\ FreeCall("handleClaimBounty", n)
    /\ LET app == [last EXCEPT !.op = "handleClaimBounty", !.called = TRUE,
                               !.valid = (prId # Null)]
       IN  IF ~last.walletClient \/ ~last.authFetch
           THEN /\ last' = [app EXCEPT !.finished = TRUE, !.result = "SDK components not initialized",
                                       !.errorMessage = "SDK components not initialized",
                                       !.isLoading = FALSE]
                /\ UNCHANGED workers
           ELSE IF prId = Null
           THEN /\ last' = [app EXCEPT !.finished = TRUE, !.result = "returned",
                                       !.errorMessage = "", !.isLoading = FALSE]
                /\ UNCHANGED workers
           ELSE /\ last' = [app EXCEPT !.finished = FALSE, !.result = "requested",
                                       !.errorMessage = "", !.isLoading = TRUE]
                /\ workers' = [workers EXCEPT ![<<"handleClaimBounty", n>>].pc = "request"]
    /\ UNCHANGED <<now, utxos, bounties, identities>>

\* The await an invocation is suspended at settles: ok is response.ok (or
\* the promise resolving), rows the length of the list it carries.  The
\* invocation runs to its next await or to the end of its finally block.
AwaitSettled(h, n, ok, rows) ==
    /\ workers[<<h, n>>].pc # "idle"
    /\ LET pc == workers[<<h, n>>].pc
           app == [last EXCEPT !.op = h, !.called = FALSE, !.valid = FALSE,
                               !.result = "settled"]
           end == [app EXCEPT !.finished = TRUE, !.isLoading = FALSE]
           stop == [workers EXCEPT ![<<h, n>>].pc = "idle"]
       IN  CASE h = "fetchBounties" /\ pc = "request" ->
                  IF ok
                  THEN /\ last' = [end EXCEPT !.rows = rows]
                       /\ workers' = stop
                  ELSE /\ rows = 0
                       /\ last' = [app EXCEPT !.finished = FALSE]
                       /\ workers' = [workers EXCEPT ![<<h, n>>].pc = "lookup"]
            [] h = "fetchBounties" /\ pc = "lookup" ->
                  IF ok
                  THEN /\ last' = [end EXCEPT !.rows = rows]
                       /\ workers' = stop
                  ELSE /\ rows = 0
                       /\ last' = [app EXCEPT !.finished = FALSE,
                                              !.errorMessage = "request failed"]
                       /\ workers' = [workers EXCEPT ![<<h, n>>].pc = "fallback"]
            [] h = "fetchBounties" /\ pc = "fallback" ->
                  IF ok
                  THEN /\ last' = [end EXCEPT !.rows = rows]
                       /\ workers' = stop
                  ELSE /\ rows = 0
                       /\ last' = end
                       /\ workers' = stop
            [] h = "handleCreateBounty" ->
                  /\ rows = 0
                  /\ last' = IF ok
                             THEN [end EXCEPT !.issueId = "", !.repoOwner = "",
                                              !.amount = 10000]
                             ELSE [end EXCEPT !.errorMessage = "request failed"]
                  /\ workers' = stop
            [] h = "handleClaimBounty" ->
                  /\ rows = 0
                  /\ IF ok
                     THEN \E m \in 1..MaxCalls :
                             /\ FreeCall("fetchBounties", m)
                             /\ LET s == fetchBounties_Start(app)
                                IN  /\ last' = [s.app EXCEPT !.op = h, !.called = FALSE,
                                                             !.finished = TRUE,
                                                             !.isLoading = FALSE]
                                    /\ workers' = [stop EXCEPT ![<<"fetchBounties", m>>].pc = s.pc]
                     ELSE /\ last' = [end EXCEPT !.errorMessage = "request failed"]
                          /\ workers' = stop
    /\ UNCHANGED <<now, utxos, bounties, identities>>

NextFrontend ==
    \/ \E ok \in BOOLEAN : SdkInitEffect(ok)
    \/ \E v \in {"home", "createBounty", "viewBounties"}, n \in 1..MaxCalls : SetView(v, n)
    \/ \E n \in 1..MaxCalls : RefreshBounties(n)
    \/ \E v \in {"", "acme/widget#42"} : SetIssueId(v)
    \/ \E v \in {"", "alice"} : SetRepoOwner(v)
    \/ \E v \in {999, 1000, 10000} \cup {10000} : SetAmount(v)
    \/ \E n \in 1..MaxCalls : HandleCreateBounty(n)
    \/ \E n \in 1..MaxCalls, prId \in {Null, "7"} : HandleClaimBounty(n, prId)
    \/ \E c \in FrontendCalls, ok \in BOOLEAN, rows \in 0..MaxRows :
          AwaitSettled(c[1], c[2], ok, rows)

SpecFrontend == InitFrontend /\ [][NextFrontend]_vars

\* C39: once the SDK initialisation effect has run without error, an
\* invocation of handleCreateBounty with valid inputs, of fetchBounties or
\* of handleClaimBounty gets past the 'SDK components not initialized'
\* guard and issues its request; and when any of the three handlers has
\* finished, isLoading is false.
C39_HandlersPassGuardAndStopLoading ==
    /\ (last.sdk = "ok" /\ last.called /\ last.valid) => last.result = "requested"
    /\ last.finished => ~last.isLoading
====
